---- MODULE Spec2Model ----
(***************************************************************************)
(* Model of the text-format readers of the VMware builder's driver parser  *)
(* (package common): the networking-log replay (ReadNetworkingConfig), the *)
(* DHCP-config tree parser and flattener (ReadDhcpConfiguration), the      *)
(* network-map reader (ReadNetworkMap) and their query operations, the     *)
(* lease-file readers (ReadDhcpdLeaseEntries, ReadAppleDhcpdLeaseEntries)  *)
(* and the shutdown step of the build (StepShutdown.Run).                  *)
(*                                                                         *)
(* A Go string is modelled as a sequence of one-character strings, so that *)
(* splitting, case folding and number parsing are computed, not assumed.   *)
(***************************************************************************)
EXTENDS Integers, Sequences, FiniteSets, TLC

VARIABLES
    \* ---- ReadNetworkingConfig ----
    netPc,      \* "version", "replay", "done", "failed", "crashed"
    netVersion, \* the first row received from the rows channel
    netRows,    \* rows received so far after the version row, in file order
    netCmds,    \* commands handed to flattenNetworkingConfig, in order
    config,     \* the NetworkingConfig being built by flattenNetworkingConfig
    netLog,     \* records written with log.Printf, in order
    netErr,     \* TRUE iff ReadNetworkingConfig returned a non-nil error
    \* ---- NetworkingConfig queries ----
    nid,        \* the last NameIntoDevices call: [called, name, devices, err]
    din,        \* the last DeviceIntoName call since then: [called, device, name, err]
    mapper,     \* which NetworkNameMapper is exercised: "NetworkingConfig" or "NetworkMap"
    \* ---- ReadNetworkMap ----
    nmPc,       \* "parse", "done", "failed"
    nmInput,    \* the lines of tokens received so far
    nmState,    \* the tokens collected since the last line end (state)
    nmUnsorted, \* network key -> attribute -> value (unsorted)
    nmResult,   \* the NetworkMap returned: rows in key order
    \* ---- ReadDhcpConfiguration ----
    dhPc,       \* "parse", "done", "failed", "crashed"
    dhInput,    \* the chunks of tokens received so far
    dhTree,     \* the tkGroup tree of parseDhcpConfig (result)
    dhNode,     \* the cursor of parseDhcpConfig (node)
    dhTokens,   \* the tokens collected since the last terminator (tokens)
    dhErr,      \* the error of ReadDhcpConfiguration, ErrNone if none
    dhGlobal,   \* the pDeclaration tree of flattenDhcpConfig (global)
    dhResult,   \* the DhcpConfiguration returned
    dhQuery,    \* the last SubnetByAddress or HostByName call
    \* ---- StepShutdown.Run ----
    ssPc,       \* "new", "run", "shutdownWait", "lockWait", "sleep", "returned"
    ssStep,     \* the StepShutdown: [Command, Timeout, Testing]
    vmRunning,  \* TRUE iff the virtual machine is running
    ssWaited,   \* sleeps of 150 ms since shutdownTimer was started
    ssLockWaited, \* waits of 150 ms since the lock timer was started
    ssError,    \* what the state bag holds under "error"
    ssAction,   \* the multistep.StepAction returned, "none" before
    ssCalls,    \* the calls of comm.Start and driver.Stop, in order
    ssUi,       \* what was given to ui.Say and ui.Error, in order
    \* ---- ReadDhcpdLeaseEntries, ReadAppleDhcpdLeaseEntries ----
    lsPc,       \* "new", "write", "read", "returned"
    lsFormat,   \* "none", "dhcpd", "apple"
    lsWritten,  \* pieces written to the lease file
    lsFile,     \* the bytes of the lease file
    lsIn,       \* the bytes the reader's channel has still to deliver
    lsResult,   \* the entries parsed without error, in order (result)
    lsErrorList, \* the entries returned with an error, in order (errorList)
    lsErr,      \* TRUE iff the file-level reader returned a non-nil error
    lsBlocked,  \* inner stages of consumeOpenClosePair blocked on their first send
    \* ---- one call of a function of the package ----
    callPc,     \* "new", "called", "returned", "crashed"
    callFn,     \* the function called, "none" before
    callArgs,   \* the arguments of the call
    callResult, \* what the call returned
    \* ---- the goroutines of one Read* call and their channels ----
    plPc,       \* the caller: "new", "version", "flatten", "parse", "returned", "crashed"
    plReader,   \* "none", "ReadNetworkingConfig", "ReadDhcpConfiguration"
    plInput,    \* the bytes of the file
    plFile,     \* the bytes fd.Read has still to return
    plStage,    \* per stage goroutine: [st, out, draining, closes, started]
    plMain,     \* the state of the loop the caller runs over the last channel
    plDelivered, \* what the caller received from the last channel, in order
    plErr       \* TRUE iff the Read* call returned a non-nil error

netVars == <<netPc, netVersion, netRows, netCmds, config, netLog, netErr>>
netQueryVars == <<nid, din, mapper>>
nmVars == <<nmPc, nmInput, nmState, nmUnsorted, nmResult>>
dhVars == <<dhPc, dhInput, dhTree, dhNode, dhTokens, dhErr, dhGlobal, dhResult, dhQuery>>
ssVars == <<ssPc, ssStep, vmRunning, ssWaited, ssLockWaited, ssError, ssAction, ssCalls, ssUi>>
lsVars == <<lsPc, lsFormat, lsWritten, lsFile, lsIn, lsResult, lsErrorList, lsErr, lsBlocked>>
callVars == <<callPc, callFn, callArgs, callResult>>
plVars == <<plPc, plReader, plInput, plFile, plStage, plMain, plDelivered, plErr>>
vars == <<netVars, netQueryVars, nmVars, dhVars, ssVars, lsVars, callVars, plVars>>
\* what the actions of one reader leave alone
otherThanNet == <<nmVars, dhVars, ssVars, lsVars, callVars, plVars>>
otherThanNm == <<netVars, dhVars, ssVars, lsVars, callVars, plVars>>
otherThanDh == <<netVars, netQueryVars, nmVars, ssVars, lsVars, callVars, plVars>>
otherThanSs == <<netVars, netQueryVars, nmVars, dhVars, lsVars, callVars, plVars>>
otherThanLs == <<netVars, netQueryVars, nmVars, dhVars, ssVars, callVars, plVars>>
otherThanCall == <<netVars, netQueryVars, nmVars, dhVars, ssVars, lsVars, plVars>>
otherThanPl == <<netVars, netQueryVars, nmVars, dhVars, ssVars, lsVars, callVars>>

(***************************************************************************)
(* Bounds of the model.                                                    *)
(***************************************************************************)
MaxRows == 2        \* rows of a networking log after its version row
MaxPrefixRows == 4  \* rows of a networking log of NAT prefix commands
MaxLines == 4       \* lines of a network map
MaxChunks == 4      \* chunks of tokens of a DHCP configuration
MaxTimeout == 2     \* longest shutdown timeout, in sleeps of 150 ms
LockWaitPolls == 2  \* waits of 150 ms until the lock timer fires (800 in 120 s)
MaxLeaseChunks == 3 \* pieces of a lease file
MaxOperands == 3    \* operands of a range parameter
MaxBytes == 4       \* bytes of an input of the tokenizer
MaxAddresses == 4   \* address entries of the declaration Hardware is called on
MaxTokens == 3      \* tokens of one statement handed to toParameter

(***************************************************************************)
(* Go maps: functions with a finite domain.                                *)
(***************************************************************************)
EmptyMap == [x \in {} |-> 0]
Put(f, k, v) == [x \in (DOMAIN f) \cup {k} |-> IF x = k THEN v ELSE f[x]]
Del(f, k) == [x \in (DOMAIN f) \ {k} |-> f[x]]
Range(s) == {s[i] : i \in DOMAIN s}

(***************************************************************************)
(* Library functions on strings (strings, strconv, net).                   *)
(***************************************************************************)
Digits == <<"0", "1", "2", "3", "4", "5", "6", "7", "8", "9">>
UpperLetters == <<"A", "B", "C", "D", "E", "F", "G", "H", "I", "J", "K", "L", "M",
                  "N", "O", "P", "Q", "R", "S", "T", "U", "V", "W", "X", "Y", "Z">>
LowerLetters == <<"a", "b", "c", "d", "e", "f", "g", "h", "i", "j", "k", "l", "m",
                  "n", "o", "p", "q", "r", "s", "t", "u", "v", "w", "x", "y", "z">>
HexDigits == <<"0", "1", "2", "3", "4", "5", "6", "7", "8", "9",
               "a", "b", "c", "d", "e", "f">>

IndexOf(seq, c) == CHOOSE i \in DOMAIN seq : seq[i] = c
IsDigit(c) == c \in Range(Digits)
DigitVal(c) == IndexOf(Digits, c) - 1

ToLowerCh(c) == IF c \in Range(UpperLetters) THEN LowerLetters[IndexOf(UpperLetters, c)] ELSE c
ToUpperCh(c) == IF c \in Range(LowerLetters) THEN UpperLetters[IndexOf(LowerLetters, c)] ELSE c
ToLower(s) == [i \in DOMAIN s |-> ToLowerCh(s[i])]
ToUpper(s) == [i \in DOMAIN s |-> ToUpperCh(s[i])]
EqualFold(s, t) == ToLower(s) = ToLower(t)
HasPrefix(s, p) == Len(s) >= Len(p) /\ SubSeq(s, 1, Len(p)) = p

\* strings.SplitN(s, sep, n) for a one-character separator and n >= 1
RECURSIVE SplitN(_, _, _)
SplitN(s, sep, n) ==
    IF n <= 1 \/ ~(\E i \in DOMAIN s : s[i] = sep)
    THEN <<s>>
    ELSE LET i == CHOOSE k \in DOMAIN s : s[k] = sep /\ \A j \in 1..(k - 1) : s[j] # sep
         IN  <<SubSeq(s, 1, i - 1)>> \o SplitN(SubSeq(s, i + 1, Len(s)), sep, n - 1)
\* strings.Split(s, sep)
Split(s, sep) == SplitN(s, sep, Len(s) + 1)

RECURSIVE Join(_, _)
Join(parts, sep) ==
    IF parts = <<>> THEN <<>>
    ELSE IF Len(parts) = 1 THEN parts[1]
    ELSE parts[1] \o sep \o Join(Tail(parts), sep)

IsDigitString(s) == Len(s) > 0 /\ \A i \in DOMAIN s : IsDigit(s[i])
RECURSIVE DigitsValue(_)
DigitsValue(s) ==
    IF s = <<>> THEN 0
    ELSE DigitsValue(SubSeq(s, 1, Len(s) - 1)) * 10 + DigitVal(s[Len(s)])

\* strconv.ParseUint(s, 10, 64): digits only, no sign
ParseUintOk(s) == IsDigitString(s)
\* strconv.Atoi(s): an optional sign, then digits
AtoiOk(s) ==
    \/ IsDigitString(s)
    \/ Len(s) > 1 /\ s[1] \in {"+", "-"} /\ IsDigitString(Tail(s))
Atoi(s) ==
    IF s[1] = "-" THEN 0 - DigitsValue(Tail(s))
    ELSE IF s[1] = "+" THEN DigitsValue(Tail(s))
    ELSE DigitsValue(s)

\* fmt's %d
RECURSIVE NatToString(_)
NatToString(n) ==
    IF n < 10 THEN <<Digits[n + 1]>>
    ELSE NatToString(n \div 10) \o <<Digits[(n % 10) + 1]>>
Itoa(n) == IF n < 0 THEN <<"-">> \o NatToString(0 - n) ELSE NatToString(n)

\* net.ParseIP. An address is modelled by its octets after To4: four for an
\* IPv4 address, sixteen for an IPv6 address; NoIP stands for nil.
\* IPv4: four decimal fields of one to three digits, each at most 255, none
\* with a leading zero. IPv6: groups of one to four hex digits separated by
\* ':', with at most one '::' (no embedded IPv4 form, no zone).
NoIP == <<>>
IsHexDigit(c) == ToLowerCh(c) \in Range(HexDigits)
HexVal(c) == IndexOf(HexDigits, ToLowerCh(c)) - 1
IsHexString(s) == Len(s) > 0 /\ \A i \in DOMAIN s : IsHexDigit(s[i])
RECURSIVE HexValue(_)
HexValue(s) ==
    IF s = <<>> THEN 0
    ELSE HexValue(SubSeq(s, 1, Len(s) - 1)) * 16 + HexVal(s[Len(s)])

IPv4FieldOk(f) ==
    /\ IsDigitString(f)
    /\ Len(f) <= 3
    /\ (Len(f) > 1 => f[1] # "0")
    /\ DigitsValue(f) <= 255
ParseIPv4Fields(fields) ==
    IF Len(fields) = 4 /\ \A i \in 1..4 : IPv4FieldOk(fields[i])
    THEN [i \in 1..4 |-> DigitsValue(fields[i])]
    ELSE NoIP
ParseIPv4(s) == ParseIPv4Fields(Split(s, "."))

IPv6GroupOk(g) == Len(g) \in 1..4 /\ IsHexString(g)
IPv6Groups(s) == IF s = <<>> THEN <<>> ELSE Split(s, ":")
IPv6Bytes(groups) ==
    [i \in 1..16 |-> IF i % 2 = 1 THEN HexValue(groups[(i + 1) \div 2]) \div 256
                     ELSE HexValue(groups[i \div 2]) % 256]
\* an address without '::' has eight groups
ParseIPv6Full(g) ==
    IF Len(g) = 8 /\ \A i \in 1..8 : IPv6GroupOk(g[i]) THEN IPv6Bytes(g) ELSE NoIP
\* the groups l before and r after '::', with zero groups between them
ParseIPv6Elided(l, r) ==
    IF /\ Len(l) + Len(r) <= 7
       /\ \A i \in DOMAIN l : IPv6GroupOk(l[i])
       /\ \A i \in DOMAIN r : IPv6GroupOk(r[i])
    THEN IPv6Bytes(l \o [i \in 1..(8 - Len(l) - Len(r)) |-> <<"0">>] \o r)
    ELSE NoIP
\* the position of the first '::' of s, 0 if there is none
FirstEllipsis(s) ==
    LET dc == {k \in 1..(Len(s) - 1) : s[k] = ":" /\ s[k + 1] = ":"}
    IN  IF dc = {} THEN 0 ELSE CHOOSE x \in dc : \A y \in dc : x <= y
ParseIPv6At(s, k) ==
    IF k = 0 THEN ParseIPv6Full(Split(s, ":"))
    ELSE ParseIPv6Elided(IPv6Groups(SubSeq(s, 1, k - 1)),
                         IPv6Groups(SubSeq(s, k + 2, Len(s))))
ParseIPv6(s) == ParseIPv6At(s, FirstEllipsis(s))
ParseIP(s) == IF \E i \in DOMAIN s : s[i] = ":" THEN ParseIPv6(s) ELSE ParseIPv4(s)
\* net.IP.String for an IPv4 address
IPString(ip) == Join([i \in 1..4 |-> Itoa(ip[i])], <<".">>)

\* net.ParseMAC, colon form with six octets of two hex digits. The result is
\* the six octets; NoMAC stands for the error return.
NoMAC == <<>>
MACFieldOk(f) == Len(f) = 2 /\ IsHexDigit(f[1]) /\ IsHexDigit(f[2])
ParseMAC(s) ==
    LET fields == Split(s, ":")
    IN  IF Len(fields) = 6 /\ \A i \in 1..6 : MACFieldOk(fields[i])
        THEN [i \in 1..6 |-> HexVal(fields[i][1]) * 16 + HexVal(fields[i][2])]
        ELSE NoMAC
\* net.HardwareAddr.String: lower-case hex octets joined by ':'
MACString(mac) ==
    Join([i \in 1..6 |-> <<HexDigits[(mac[i] \div 16) + 1], HexDigits[(mac[i] % 16) + 1]>>],
         <<":">>)


(***************************************************************************)
(* Tokens of the networking log used as inputs of the model.               *)
(***************************************************************************)
tVERSION == <<"V", "E", "R", "S", "I", "O", "N">>
tVNET == <<"V", "N", "E", "T">>
tVIRTUAL_ADAPTER == <<"V", "I", "R", "T", "U", "A", "L", "_", "A", "D", "A", "P", "T", "E", "R">>
tNAT == <<"N", "A", "T">>
tHOSTONLY_SUBNET == <<"H", "O", "S", "T", "O", "N", "L", "Y", "_", "S", "U", "B", "N", "E", "T">>
tHOSTONLY_NETMASK == <<"H", "O", "S", "T", "O", "N", "L", "Y", "_", "N", "E", "T", "M", "A", "S", "K">>
tYes == <<"y", "e", "s">>
tNo == <<"n", "o">>
tTcp == <<"t", "c", "p">>
tUdp == <<"u", "d", "p">>
tSlash == <<"/">>
tColon == <<":">>

\* the verbs of NetworkingCommandParsers
cmdAnswer == <<"a", "n", "s", "w", "e", "r">>
cmdRemoveAnswer == <<"r", "e", "m", "o", "v", "e", "_", "a", "n", "s", "w", "e", "r">>
cmdAddNatPortFwd == <<"a", "d", "d", "_", "n", "a", "t", "_", "p", "o", "r", "t", "f", "w", "d">>
cmdRemoveNatPortFwd == <<"r", "e", "m", "o", "v", "e", "_", "n", "a", "t", "_", "p", "o", "r", "t", "f", "w", "d">>
cmdAddDhcpMacToIp == <<"a", "d", "d", "_", "d", "h", "c", "p", "_", "m", "a", "c", "_", "t", "o", "_", "i", "p">>
cmdRemoveDhcpMacToIp == <<"r", "e", "m", "o", "v", "e", "_", "d", "h", "c", "p", "_", "m", "a", "c", "_", "t", "o", "_", "i", "p">>
cmdAddBridgeMapping == <<"a", "d", "d", "_", "b", "r", "i", "d", "g", "e", "_", "m", "a", "p", "p", "i", "n", "g">>
cmdRemoveBridgeMapping == <<"r", "e", "m", "o", "v", "e", "_", "b", "r", "i", "d", "g", "e", "_", "m", "a", "p", "p", "i", "n", "g">>
cmdAddNatPrefix == <<"a", "d", "d", "_", "n", "a", "t", "_", "p", "r", "e", "f", "i", "x">>
cmdRemoveNatPrefix == <<"r", "e", "m", "o", "v", "e", "_", "n", "a", "t", "_", "p", "r", "e", "f", "i", "x">>

NetworkingCommandParsers ==
    <<cmdAnswer, cmdRemoveAnswer, cmdAddNatPortFwd, cmdRemoveNatPortFwd,
      cmdAddDhcpMacToIp, cmdRemoveDhcpMacToIp, cmdAddBridgeMapping,
      cmdRemoveBridgeMapping, cmdAddNatPrefix, cmdRemoveNatPrefix>>

(***************************************************************************)
(* networkingVERSION                                                       *)
(***************************************************************************)
RECURSIVE Pow10(_)
Pow10(n) == IF n = 0 THEN 1 ELSE 10 * Pow10(n - 1)

networkingVERSION_Valid(value) ==
    LET tokens == SplitN(value, "=", 2)
    IN  /\ Len(tokens) = 2
        /\ tokens[1] = tVERSION
        /\ LET parts == Split(tokens[2], ",")
           IN  /\ Len(parts) = 2
               /\ \A i \in 1..2 : ParseUintOk(parts[i])

\* Number() of a valid version, as the fraction <<numerator, denominator>> of
\* integer + mantissa / 10^len(mantissa)
networkingVERSION_Number(value) ==
    LET parts == Split(SplitN(value, "=", 2)[2], ",")
        denomination == Pow10(Len(parts[2]))
    IN  <<DigitsValue(parts[1]) * denomination + DigitsValue(parts[2]), denomination>>

\* networkingReadVersion: TRUE iff it returns no error. NoRow is the zero
\* value received from the closed rows channel of an empty file.
NoRow == <<>>
networkingReadVersion(row) ==
    /\ Len(row) = 1
    /\ networkingVERSION_Valid(row[1])

(***************************************************************************)
(* networkingVNET                                                          *)
(***************************************************************************)
networkingVNET_Valid(value) ==
    LET tokens == SplitN(value, "_", 3)
    IN  /\ Len(tokens) = 3
        /\ tokens[1] = tVNET
        /\ ToUpper(value) = value
        /\ ParseUintOk(tokens[2])

networkingVNET_Number(value) ==
    LET tokens == SplitN(value, "_", 3)
    IN  IF Len(tokens) >= 2 /\ AtoiOk(tokens[2]) THEN Atoi(tokens[2]) ELSE 0 - 1

networkingVNET_Option(value) ==
    LET tokens == SplitN(value, "_", 3)
    IN  IF Len(tokens) = 3 THEN tokens[3] ELSE <<>>

(***************************************************************************)
(* The command parsers. A parser returns an entry, an error, or panics.    *)
(***************************************************************************)
ParseOk(e) == [status |-> "ok", entry |-> e]
ParseError == [status |-> "error"]
ParsePanic == [status |-> "panic"]

parseNetworkingCommandAnswer(row) ==
    IF Len(row) # 2 THEN ParseError
    ELSE IF ~networkingVNET_Valid(row[1]) THEN ParseError
    ELSE ParseOk([type |-> "answer", vnet |-> row[1], value |-> row[2]])

parseNetworkingCommandRemoveAnswer(row) ==
    IF Len(row) # 1 THEN ParseError
    ELSE IF ~networkingVNET_Valid(row[1]) THEN ParseError
    ELSE ParseOk([type |-> "remove_answer", vnet |-> row[1]])

parseNetworkingCommandAddNatPortFwd(row) ==
    IF Len(row) # 5 THEN ParseError
    ELSE IF ~AtoiOk(row[1]) THEN ParseError
    ELSE IF ToLower(row[2]) # tTcp /\ ToLower(row[2]) # tUdp THEN ParseError
    ELSE IF ~AtoiOk(row[3]) THEN ParseError
    ELSE IF ParseIP(row[4]) = NoIP THEN ParseError
    ELSE IF ~AtoiOk(row[5]) THEN ParseError
    ELSE ParseOk([type |-> "add_nat_portfwd", vnet |-> Atoi(row[1]) - 1,
                  protocol |-> ToLower(row[2]), port |-> Atoi(row[3]),
                  targetHost |-> ParseIP(row[4]), targetPort |-> Atoi(row[5])])

parseNetworkingCommandRemoveNatPortFwd(row) ==
    IF Len(row) # 3 THEN ParseError
    ELSE IF ~AtoiOk(row[1]) THEN ParseError
    ELSE IF ToLower(row[2]) # tTcp /\ ToLower(row[2]) # tUdp THEN ParseError
    ELSE IF ~AtoiOk(row[3]) THEN ParseError
    ELSE ParseOk([type |-> "remove_nat_portfwd", vnet |-> Atoi(row[1]) - 1,
                  protocol |-> ToLower(row[2]), port |-> Atoi(row[3])])

parseNetworkingCommandAddDhcpMacToIp(row) ==
    IF Len(row) # 3 THEN ParseError
    ELSE IF ~AtoiOk(row[1]) THEN ParseError
    ELSE IF ParseMAC(row[2]) = NoMAC THEN ParseError
    ELSE IF ParseIP(row[3]) = NoIP THEN ParseError
    ELSE ParseOk([type |-> "add_dhcp_mac_to_ip", vnet |-> Atoi(row[1]) - 1,
                  mac |-> ParseMAC(row[2]), ip |-> ParseIP(row[3])])

parseNetworkingCommandRemoveDhcpMacToIp(row) ==
    IF Len(row) # 2 THEN ParseError
    ELSE IF ~AtoiOk(row[1]) THEN ParseError
    ELSE IF ParseMAC(row[2]) = NoMAC THEN ParseError
    ELSE ParseOk([type |-> "remove_dhcp_mac_to_ip", vnet |-> Atoi(row[1]) - 1,
                  mac |-> ParseMAC(row[2])])

\* mutant: the index of the log is stored as it is written
parseNetworkingCommandAddBridgeMapping_NoOffset(row) ==
    IF Len(row) # 2 THEN ParseError
    ELSE IF ~AtoiOk(row[2]) THEN (IF 3 \in DOMAIN row THEN ParseError ELSE ParsePanic)
    ELSE ParseOk([type |-> "add_bridge_mapping", intf |-> row[1], vnet |-> Atoi(row[2])])

\* On a non-numeric index the error message is built from row[2] (Go index),
\* which a two-element row does not have: the index expression panics.
parseNetworkingCommandAddBridgeMapping(row) ==
    IF Len(row) # 2 THEN ParseError
    ELSE IF ~AtoiOk(row[2]) THEN (IF 3 \in DOMAIN row THEN ParseError ELSE ParsePanic)
    ELSE ParseOk([type |-> "add_bridge_mapping", intf |-> row[1],
                  vnet |-> Atoi(row[2]) - 1])

parseNetworkingCommandRemoveBridgeMapping(row) ==
    IF Len(row) # 1 THEN ParseError
    ELSE ParseOk([type |-> "remove_bridge_mapping", intf |-> row[1]])

parseNetworkingCommandAddNatPrefix(row) ==
    IF Len(row) # 2 THEN ParseError
    ELSE IF ~AtoiOk(row[1]) THEN ParseError
    ELSE IF ~HasPrefix(row[2], tSlash) THEN ParseError
    ELSE IF ~AtoiOk(Tail(row[2])) THEN ParseError
    ELSE ParseOk([type |-> "add_nat_prefix", vnet |-> Atoi(row[1]) - 1,
                  prefix |-> Atoi(Tail(row[2]))])

parseNetworkingCommandRemoveNatPrefix(row) ==
    IF Len(row) # 2 THEN ParseError
    ELSE IF ~AtoiOk(row[1]) THEN ParseError
    ELSE IF ~HasPrefix(row[2], tSlash) THEN ParseError
    ELSE IF ~AtoiOk(Tail(row[2])) THEN ParseError
    ELSE ParseOk([type |-> "remove_nat_prefix", vnet |-> Atoi(row[1]) - 1,
                  prefix |-> Atoi(Tail(row[2]))])

\* NetworkingParserByCommand: TRUE iff a parser is registered for the verb
NetworkingParserByCommand(command) == command \in Range(NetworkingCommandParsers)

\* the callback selected for a registered verb, applied to the arguments
NetworkingCallback(command, row) ==
    CASE command = cmdAnswer -> parseNetworkingCommandAnswer(row)
      [] command = cmdRemoveAnswer -> parseNetworkingCommandRemoveAnswer(row)
      [] command = cmdAddNatPortFwd -> parseNetworkingCommandAddNatPortFwd(row)
      [] command = cmdRemoveNatPortFwd -> parseNetworkingCommandRemoveNatPortFwd(row)
      [] command = cmdAddDhcpMacToIp -> parseNetworkingCommandAddDhcpMacToIp(row)
      [] command = cmdRemoveDhcpMacToIp -> parseNetworkingCommandRemoveDhcpMacToIp(row)
      [] command = cmdAddBridgeMapping -> parseNetworkingCommandAddBridgeMapping(row)
      [] command = cmdRemoveBridgeMapping -> parseNetworkingCommandRemoveBridgeMapping(row)
      [] command = cmdAddNatPrefix -> parseNetworkingCommandAddNatPrefix(row)
      [] command = cmdRemoveNatPrefix -> parseNetworkingCommandRemoveNatPrefix(row)

\* one iteration of the loop of parseNetworkingConfig on a non-empty row:
\* "invalid" (unknown verb, logged), "error" (logged), "panic" or "ok"
parseNetworkingConfig(row) ==
    IF ~NetworkingParserByCommand(row[1]) THEN [status |-> "invalid"]
    ELSE NetworkingCallback(row[1], Tail(row))


(***************************************************************************)
(* NetworkingConfig and flattenNetworkingConfig                            *)
(***************************************************************************)
tVmnet == <<"v", "m", "n", "e", "t">>
NetworkingInterfacePrefix == tVmnet

tEn0 == <<"e", "n", "0">>
tEn1 == <<"e", "n", "1">>
\* the interfaces net.InterfaceByName finds on the host running the replay
HostInterfaces == {tEn0}

EmptyNetworkingConfig ==
    [answer |-> EmptyMap, natPortFwd |-> EmptyMap, dhcpMacToIp |-> EmptyMap,
     bridgeMapping |-> EmptyMap, natPrefix |-> EmptyMap]

\* the value of a Go map lookup, "" when the key is missing
MapGet(table, k) == IF k \in DOMAIN table THEN table[k] ELSE <<>>

\* fmt.Sprintf("%s/%d", protocol, port) and fmt.Sprintf("%s:%d", host, port)
ProtoPort(protocol, port) == protocol \o tSlash \o Itoa(port)
Target(host, port) == IPString(host) \o tColon \o Itoa(port)

\* mutant: the last match is removed instead of the first
RemoveFirstPrefix_Last(prefixes, prefix) ==
    IF \E i \in DOMAIN prefixes : prefixes[i] = prefix
    THEN LET index == CHOOSE i \in DOMAIN prefixes :
                          prefixes[i] = prefix
                          /\ \A j \in (i + 1)..Len(prefixes) : prefixes[j] # prefix
         IN  SubSeq(prefixes, 1, index - 1) \o SubSeq(prefixes, index + 1, Len(prefixes))
    ELSE prefixes

\* append(prefixes[:index], prefixes[index+1:]...) at the first match
RemoveFirstPrefix(prefixes, prefix) ==
    IF \E i \in DOMAIN prefixes : prefixes[i] = prefix
    THEN LET index == CHOOSE i \in DOMAIN prefixes :
                          prefixes[i] = prefix /\ \A j \in 1..(i - 1) : prefixes[j] # prefix
         IN  SubSeq(prefixes, 1, index - 1) \o SubSeq(prefixes, index + 1, Len(prefixes))
    ELSE prefixes

\* one iteration of the loop of flattenNetworkingConfig: the config after
\* entry e has been applied to config c
flattenAnswer(c, e) ==
    LET n == networkingVNET_Number(e.vnet)
        answers == IF n \in DOMAIN c.answer THEN c.answer[n] ELSE EmptyMap
    IN  [c EXCEPT !.answer = Put(c.answer, n, Put(answers, networkingVNET_Option(e.vnet), e.value))]

\* mutant: remove_answer drops the whole answer table of the network
flattenRemoveAnswer_DropTable(c, e) ==
    [c EXCEPT !.answer = Del(c.answer, networkingVNET_Number(e.vnet))]

flattenRemoveAnswer(c, e) ==
    LET n == networkingVNET_Number(e.vnet)
    IN  IF n \in DOMAIN c.answer
        THEN [c EXCEPT !.answer = Put(c.answer, n, Del(c.answer[n], networkingVNET_Option(e.vnet)))]
        ELSE c

\* mutant: an existing protocol/port key keeps its first target
flattenAddNatPortFwd_KeepFirst(c, e) ==
    LET portfwds == IF e.vnet \in DOMAIN c.natPortFwd THEN c.natPortFwd[e.vnet] ELSE EmptyMap
        key == ProtoPort(e.protocol, e.port)
    IN  [c EXCEPT !.natPortFwd =
            Put(c.natPortFwd, e.vnet,
                Put(portfwds, key, IF key \in DOMAIN portfwds THEN portfwds[key]
                                   ELSE Target(e.targetHost, e.targetPort)))]

flattenAddNatPortFwd(c, e) ==
    LET portfwds == IF e.vnet \in DOMAIN c.natPortFwd THEN c.natPortFwd[e.vnet] ELSE EmptyMap
    IN  [c EXCEPT !.natPortFwd =
            Put(c.natPortFwd, e.vnet,
                Put(portfwds, ProtoPort(e.protocol, e.port), Target(e.targetHost, e.targetPort)))]

flattenRemoveNatPortFwd(c, e) ==
    IF e.vnet \in DOMAIN c.natPortFwd
    THEN [c EXCEPT !.natPortFwd =
            Put(c.natPortFwd, e.vnet, Del(c.natPortFwd[e.vnet], ProtoPort(e.protocol, e.port)))]
    ELSE c

flattenAddDhcpMacToIp(c, e) ==
    LET dhcpmacs == IF e.vnet \in DOMAIN c.dhcpMacToIp THEN c.dhcpMacToIp[e.vnet] ELSE EmptyMap
    IN  [c EXCEPT !.dhcpMacToIp =
            Put(c.dhcpMacToIp, e.vnet, Put(dhcpmacs, MACString(e.mac), e.ip))]

flattenRemoveDhcpMacToIp(c, e) ==
    IF e.vnet \in DOMAIN c.dhcpMacToIp
    THEN [c EXCEPT !.dhcpMacToIp =
            Put(c.dhcpMacToIp, e.vnet, Del(c.dhcpMacToIp[e.vnet], MACString(e.mac)))]
    ELSE c

flattenAddBridgeMapping(c, e) ==
    [c EXCEPT !.bridgeMapping = Put(c.bridgeMapping, e.intf, e.vnet)]

flattenRemoveBridgeMapping(c, e) ==
    [c EXCEPT !.bridgeMapping = Del(c.bridgeMapping, e.intf)]

flattenAddNatPrefix(c, e) ==
    IF e.vnet \in DOMAIN c.natPrefix
    THEN [c EXCEPT !.natPrefix = Put(c.natPrefix, e.vnet, Append(c.natPrefix[e.vnet], e.prefix))]
    ELSE [c EXCEPT !.natPrefix = Put(c.natPrefix, e.vnet, <<e.prefix>>)]

flattenRemoveNatPrefix(c, e) ==
    IF e.vnet \in DOMAIN c.natPrefix
    THEN [c EXCEPT !.natPrefix =
            Put(c.natPrefix, e.vnet, RemoveFirstPrefix(c.natPrefix[e.vnet], e.prefix))]
    ELSE c

flattenNetworkingConfig(c, e) ==
    CASE e.type = "answer" -> flattenAnswer(c, e)
      [] e.type = "remove_answer" -> flattenRemoveAnswer(c, e)
      [] e.type = "add_nat_portfwd" -> flattenAddNatPortFwd(c, e)
      [] e.type = "remove_nat_portfwd" -> flattenRemoveNatPortFwd(c, e)
      [] e.type = "add_dhcp_mac_to_ip" -> flattenAddDhcpMacToIp(c, e)
      [] e.type = "remove_dhcp_mac_to_ip" -> flattenRemoveDhcpMacToIp(c, e)
      [] e.type = "add_bridge_mapping" -> flattenAddBridgeMapping(c, e)
      [] e.type = "remove_bridge_mapping" -> flattenRemoveBridgeMapping(c, e)
      [] e.type = "add_nat_prefix" -> flattenAddNatPrefix(c, e)
      [] e.type = "remove_nat_prefix" -> flattenRemoveNatPrefix(c, e)

\* the records that iteration writes to the log
flattenNetworkingConfigLog(c, e) ==
    CASE e.type = "remove_answer" /\ networkingVNET_Number(e.vnet) \notin DOMAIN c.answer ->
            <<[msg |-> "unable to remove answer", entry |-> e]>>
      [] e.type = "remove_nat_portfwd" /\ e.vnet \notin DOMAIN c.natPortFwd ->
            <<[msg |-> "unable to remove nat port-forward", entry |-> e]>>
      [] e.type = "remove_dhcp_mac_to_ip" /\ e.vnet \notin DOMAIN c.dhcpMacToIp ->
            <<[msg |-> "unable to remove dhcp_mac_to_ip entry", entry |-> e]>>
      [] e.type = "remove_nat_prefix" /\ e.vnet \notin DOMAIN c.natPrefix ->
            <<[msg |-> "unable to remove nat prefix", entry |-> e]>>
      [] e.type \in {"add_bridge_mapping", "remove_bridge_mapping"}
           /\ e.intf \notin HostInterfaces ->
            <<[msg |-> "interface was not found on the current platform", entry |-> e]>>
      [] OTHER -> <<>>

(***************************************************************************)
(* Classification and the NetworkNameMapper of NetworkingConfig            *)
(***************************************************************************)
NetworkingTypeHostonly == 1
NetworkingTypeNat == 2
NetworkingTypeBridged == 3

\* mutant: NAT=yes makes a table Nat without looking at VIRTUAL_ADAPTER
AnswerType_NatFirst(table) ==
    IF MapGet(table, tNAT) = tYes THEN NetworkingTypeNat
    ELSE IF MapGet(table, tVIRTUAL_ADAPTER) = tYes THEN NetworkingTypeHostonly
    ELSE NetworkingTypeBridged

\* the classification the loop over config.answer gives a table
AnswerType(table) ==
    IF MapGet(table, tVIRTUAL_ADAPTER) = tYes
    THEN (IF MapGet(table, tNAT) = tYes THEN NetworkingTypeNat ELSE NetworkingTypeHostonly)
    ELSE NetworkingTypeBridged

\* the indices for which the loop over config.answer logs "is missing some
\* expected keys (HOSTONLY_SUBNET, HOSTONLY_NETMASK)"
networkingConfigInterfaceTypesLog(c) ==
    {v \in DOMAIN c.answer :
        /\ MapGet(c.answer[v], tVIRTUAL_ADAPTER) = tYes
        /\ (tHOSTONLY_SUBNET \notin DOMAIN c.answer[v] \/ tHOSTONLY_NETMASK \notin DOMAIN c.answer[v])}

DefaultTypes ==
    Put(Put(Put(EmptyMap, 0, NetworkingTypeBridged), 1, NetworkingTypeHostonly),
        8, NetworkingTypeNat)

\* mutant: the bridge mappings are walked after the answer tables
networkingConfigInterfaceTypes_BridgeLast(c) ==
    LET answered == [v \in (DOMAIN DefaultTypes) \cup (DOMAIN c.answer) |->
                        IF v \in DOMAIN c.answer THEN AnswerType(c.answer[v])
                        ELSE DefaultTypes[v]]
    IN  [v \in (DOMAIN answered) \cup Range(c.bridgeMapping) |->
            IF v \in Range(c.bridgeMapping) THEN NetworkingTypeBridged ELSE answered[v]]

\* defaults first, then the bridge mappings, then the answer tables: each
\* later assignment to result[vmnet] overwrites the earlier one
networkingConfigInterfaceTypes(c) ==
    LET bridged == [v \in (DOMAIN DefaultTypes) \cup Range(c.bridgeMapping) |->
                        IF v \in Range(c.bridgeMapping) THEN NetworkingTypeBridged
                        ELSE DefaultTypes[v]]
    IN  [v \in (DOMAIN bridged) \cup (DOMAIN c.answer) |->
            IF v \in DOMAIN c.answer THEN AnswerType(c.answer[v]) ELSE bridged[v]]

\* sort.Ints over a set of keys
RECURSIVE SortInts(_)
SortInts(S) ==
    IF S = {} THEN <<>>
    ELSE LET m == CHOOSE x \in S : \A y \in S : x <= y
         IN  <<m>> \o SortInts(S \ {m})

\* networkingConfigNamesToVmnet(config)[t]: the indices of type t, ascending
networkingConfigNamesToVmnet(c, t) ==
    LET types == networkingConfigInterfaceTypes(c)
    IN  SortInts({v \in DOMAIN types : types[v] = t})

tHostonly == <<"h", "o", "s", "t", "o", "n", "l", "y">>
tNat == <<"n", "a", "t">>
tBridged == <<"b", "r", "i", "d", "g", "e", "d">>

NetworkingConfig_NameIntoDevices(c, name) ==
    LET lname == ToLower(name)
        vmnets(t) == LET ns == networkingConfigNamesToVmnet(c, t)
                     IN  [i \in DOMAIN ns |-> NetworkingInterfacePrefix \o Itoa(ns[i])]
    IN  IF lname = tHostonly /\ Len(networkingConfigNamesToVmnet(c, NetworkingTypeHostonly)) > 0
        THEN [devices |-> vmnets(NetworkingTypeHostonly), err |-> FALSE]
        ELSE IF lname = tNat /\ Len(networkingConfigNamesToVmnet(c, NetworkingTypeNat)) > 0
        THEN [devices |-> vmnets(NetworkingTypeNat), err |-> FALSE]
        ELSE IF lname = tBridged /\ Len(networkingConfigNamesToVmnet(c, NetworkingTypeBridged)) > 0
        THEN [devices |-> vmnets(NetworkingTypeBridged), err |-> FALSE]
        ELSE [devices |-> <<>>, err |-> TRUE]

NetworkingConfig_DeviceIntoName(c, device) ==
    LET types == networkingConfigInterfaceTypes(c)
        lowerdevice == ToLower(device)
        number == SubSeq(lowerdevice, Len(NetworkingInterfacePrefix) + 1, Len(lowerdevice))
    IN  IF ~HasPrefix(lowerdevice, NetworkingInterfacePrefix)
        THEN [name |-> device, err |-> FALSE]
        ELSE IF ~AtoiOk(number) THEN [name |-> <<>>, err |-> TRUE]
        ELSE IF Atoi(number) \notin DOMAIN types THEN [name |-> <<>>, err |-> TRUE]
        ELSE LET network == types[Atoi(number)]
             IN  CASE network = NetworkingTypeHostonly -> [name |-> tHostonly, err |-> FALSE]
                   [] network = NetworkingTypeNat -> [name |-> tNat, err |-> FALSE]
                   [] network = NetworkingTypeBridged -> [name |-> tBridged, err |-> FALSE]


(***************************************************************************)
(* ReadNetworkingConfig: the rows of the file, the version gate, replay.   *)
(***************************************************************************)
\* candidate first rows of the file (NoRow: the file has no row)
VersionRowPool ==
    {NoRow,
      \* VERSION=1,0
      <<<<"V", "E", "R", "S", "I", "O", "N", "=", "1", ",", "0">>>>,
      \* VERSION=2,0
      <<<<"V", "E", "R", "S", "I", "O", "N", "=", "2", ",", "0">>>>,
      \* VERSION=1,00
      <<<<"V", "E", "R", "S", "I", "O", "N", "=", "1", ",", "0", "0">>>>,
      \* VERSION=1,5
      <<<<"V", "E", "R", "S", "I", "O", "N", "=", "1", ",", "5">>>>,
      \* VERSION=0,1
      <<<<"V", "E", "R", "S", "I", "O", "N", "=", "0", ",", "1">>>>,
      \* VERSION=1
      <<<<"V", "E", "R", "S", "I", "O", "N", "=", "1">>>>,
      \* VERSION
      <<<<"V", "E", "R", "S", "I", "O", "N">>>>,
      \* version=1,0
      <<<<"v", "e", "r", "s", "i", "o", "n", "=", "1", ",", "0">>>>,
      \* VERSION=1,0 x
      <<<<"V", "E", "R", "S", "I", "O", "N", "=", "1", ",", "0">>, <<"x">>>>,
      \* answer VNET_1_NAT yes
      <<<<"a", "n", "s", "w", "e", "r">>, <<"V", "N", "E", "T", "_", "1", "_", "N", "A", "T">>, <<"y", "e", "s">>>>}

\* candidate well-formed rows after the version row
WellFormedRowPool ==
    {
      \* answer VNET_1_VIRTUAL_ADAPTER yes
      <<<<"a", "n", "s", "w", "e", "r">>, <<"V", "N", "E", "T", "_", "1", "_", "V", "I", "R", "T", "U", "A", "L", "_", "A", "D", "A", "P", "T", "E", "R">>, <<"y", "e", "s">>>>,
      \* answer VNET_1_NAT yes
      <<<<"a", "n", "s", "w", "e", "r">>, <<"V", "N", "E", "T", "_", "1", "_", "N", "A", "T">>, <<"y", "e", "s">>>>,
      \* answer VNET_1_NAT no
      <<<<"a", "n", "s", "w", "e", "r">>, <<"V", "N", "E", "T", "_", "1", "_", "N", "A", "T">>, <<"n", "o">>>>,
      \* remove_answer VNET_1_NAT
      <<<<"r", "e", "m", "o", "v", "e", "_", "a", "n", "s", "w", "e", "r">>, <<"V", "N", "E", "T", "_", "1", "_", "N", "A", "T">>>>,
      \* remove_answer VNET_2_NAT
      <<<<"r", "e", "m", "o", "v", "e", "_", "a", "n", "s", "w", "e", "r">>, <<"V", "N", "E", "T", "_", "2", "_", "N", "A", "T">>>>,
      \* add_nat_portfwd 2 TCP 8080 10.0.0.5 80
      <<<<"a", "d", "d", "_", "n", "a", "t", "_", "p", "o", "r", "t", "f", "w", "d">>, <<"2">>, <<"T", "C", "P">>, <<"8", "0", "8", "0">>, <<"1", "0", ".", "0", ".", "0", ".", "5">>, <<"8", "0">>>>,
      \* add_nat_portfwd 2 tcp 8080 10.0.0.6 80
      <<<<"a", "d", "d", "_", "n", "a", "t", "_", "p", "o", "r", "t", "f", "w", "d">>, <<"2">>, <<"t", "c", "p">>, <<"8", "0", "8", "0">>, <<"1", "0", ".", "0", ".", "0", ".", "6">>, <<"8", "0">>>>,
      \* remove_nat_portfwd 2 tcp 8080
      <<<<"r", "e", "m", "o", "v", "e", "_", "n", "a", "t", "_", "p", "o", "r", "t", "f", "w", "d">>, <<"2">>, <<"t", "c", "p">>, <<"8", "0", "8", "0">>>>,
      \* add_dhcp_mac_to_ip 2 00:50:56:C0:00:08 10.0.0.5
      <<<<"a", "d", "d", "_", "d", "h", "c", "p", "_", "m", "a", "c", "_", "t", "o", "_", "i", "p">>, <<"2">>, <<"0", "0", ":", "5", "0", ":", "5", "6", ":", "C", "0", ":", "0", "0", ":", "0", "8">>, <<"1", "0", ".", "0", ".", "0", ".", "5">>>>,
      \* remove_dhcp_mac_to_ip 2 00:50:56:c0:00:08
      <<<<"r", "e", "m", "o", "v", "e", "_", "d", "h", "c", "p", "_", "m", "a", "c", "_", "t", "o", "_", "i", "p">>, <<"2">>, <<"0", "0", ":", "5", "0", ":", "5", "6", ":", "c", "0", ":", "0", "0", ":", "0", "8">>>>,
      \* add_bridge_mapping en0 2
      <<<<"a", "d", "d", "_", "b", "r", "i", "d", "g", "e", "_", "m", "a", "p", "p", "i", "n", "g">>, <<"e", "n", "0">>, <<"2">>>>,
      \* add_bridge_mapping en1 3
      <<<<"a", "d", "d", "_", "b", "r", "i", "d", "g", "e", "_", "m", "a", "p", "p", "i", "n", "g">>, <<"e", "n", "1">>, <<"3">>>>,
      \* remove_bridge_mapping en0
      <<<<"r", "e", "m", "o", "v", "e", "_", "b", "r", "i", "d", "g", "e", "_", "m", "a", "p", "p", "i", "n", "g">>, <<"e", "n", "0">>>>,
      \* add_bridge_mapping en0 1
      <<<<"a", "d", "d", "_", "b", "r", "i", "d", "g", "e", "_", "m", "a", "p", "p", "i", "n", "g">>, <<"e", "n", "0">>, <<"1">>>>,
      \* add_nat_portfwd 2 tcp 8080 10.0.0.5 80
      <<<<"a", "d", "d", "_", "n", "a", "t", "_", "p", "o", "r", "t", "f", "w", "d">>, <<"2">>, <<"t", "c", "p">>, <<"8", "0", "8", "0">>, <<"1", "0", ".", "0", ".", "0", ".", "5">>, <<"8", "0">>>>,
      \* add_nat_portfwd 3 udp 53 10.0.0.5 53
      <<<<"a", "d", "d", "_", "n", "a", "t", "_", "p", "o", "r", "t", "f", "w", "d">>, <<"3">>, <<"u", "d", "p">>, <<"5", "3">>, <<"1", "0", ".", "0", ".", "0", ".", "5">>, <<"5", "3">>>>,
      \* answer VNET_1_HOSTONLY_SUBNET 10.0.0.0
      <<<<"a", "n", "s", "w", "e", "r">>, <<"V", "N", "E", "T", "_", "1", "_", "H", "O", "S", "T", "O", "N", "L", "Y", "_", "S", "U", "B", "N", "E", "T">>, <<"1", "0", ".", "0", ".", "0", ".", "0">>>>,
      \* add_nat_prefix 2 /24
      <<<<"a", "d", "d", "_", "n", "a", "t", "_", "p", "r", "e", "f", "i", "x">>, <<"2">>, <<"/", "2", "4">>>>,
      \* remove_nat_prefix 2 /24
      <<<<"r", "e", "m", "o", "v", "e", "_", "n", "a", "t", "_", "p", "r", "e", "f", "i", "x">>, <<"2">>, <<"/", "2", "4">>>>}

\* candidate rows with an unknown verb or malformed arguments
MalformedRowPool ==
    {
      \* bogus x
      <<<<"b", "o", "g", "u", "s">>, <<"x">>>>,
      \* answer VNET_1_NAT
      <<<<"a", "n", "s", "w", "e", "r">>, <<"V", "N", "E", "T", "_", "1", "_", "N", "A", "T">>>>,
      \* answer vnet_1_nat yes
      <<<<"a", "n", "s", "w", "e", "r">>, <<"v", "n", "e", "t", "_", "1", "_", "n", "a", "t">>, <<"y", "e", "s">>>>,
      \* add_nat_portfwd x tcp 8080 10.0.0.5 80
      <<<<"a", "d", "d", "_", "n", "a", "t", "_", "p", "o", "r", "t", "f", "w", "d">>, <<"x">>, <<"t", "c", "p">>, <<"8", "0", "8", "0">>, <<"1", "0", ".", "0", ".", "0", ".", "5">>, <<"8", "0">>>>,
      \* add_nat_portfwd 2 icmp 8080 10.0.0.5 80
      <<<<"a", "d", "d", "_", "n", "a", "t", "_", "p", "o", "r", "t", "f", "w", "d">>, <<"2">>, <<"i", "c", "m", "p">>, <<"8", "0", "8", "0">>, <<"1", "0", ".", "0", ".", "0", ".", "5">>, <<"8", "0">>>>,
      \* add_nat_portfwd 2 tcp 8080 10.0.0 80
      <<<<"a", "d", "d", "_", "n", "a", "t", "_", "p", "o", "r", "t", "f", "w", "d">>, <<"2">>, <<"t", "c", "p">>, <<"8", "0", "8", "0">>, <<"1", "0", ".", "0", ".", "0">>, <<"8", "0">>>>,
      \* add_dhcp_mac_to_ip 2 00:50:56 10.0.0.5
      <<<<"a", "d", "d", "_", "d", "h", "c", "p", "_", "m", "a", "c", "_", "t", "o", "_", "i", "p">>, <<"2">>, <<"0", "0", ":", "5", "0", ":", "5", "6">>, <<"1", "0", ".", "0", ".", "0", ".", "5">>>>,
      \* add_nat_prefix 2 24
      <<<<"a", "d", "d", "_", "n", "a", "t", "_", "p", "r", "e", "f", "i", "x">>, <<"2">>, <<"2", "4">>>>,
      \* add_bridge_mapping en0 x
      <<<<"a", "d", "d", "_", "b", "r", "i", "d", "g", "e", "_", "m", "a", "p", "p", "i", "n", "g">>, <<"e", "n", "0">>, <<"x">>>>}

RowPool == WellFormedRowPool \cup MalformedRowPool

\* candidate rows for the query specification: those that decide the classification
ClassRowPool ==
    {
      \* answer VNET_1_VIRTUAL_ADAPTER yes
      <<<<"a", "n", "s", "w", "e", "r">>, <<"V", "N", "E", "T", "_", "1", "_", "V", "I", "R", "T", "U", "A", "L", "_", "A", "D", "A", "P", "T", "E", "R">>, <<"y", "e", "s">>>>,
      \* answer VNET_1_NAT yes
      <<<<"a", "n", "s", "w", "e", "r">>, <<"V", "N", "E", "T", "_", "1", "_", "N", "A", "T">>, <<"y", "e", "s">>>>,
      \* remove_answer VNET_1_NAT
      <<<<"r", "e", "m", "o", "v", "e", "_", "a", "n", "s", "w", "e", "r">>, <<"V", "N", "E", "T", "_", "1", "_", "N", "A", "T">>>>,
      \* answer VNET_8_VIRTUAL_ADAPTER no
      <<<<"a", "n", "s", "w", "e", "r">>, <<"V", "N", "E", "T", "_", "8", "_", "V", "I", "R", "T", "U", "A", "L", "_", "A", "D", "A", "P", "T", "E", "R">>, <<"n", "o">>>>,
      \* add_bridge_mapping en0 2
      <<<<"a", "d", "d", "_", "b", "r", "i", "d", "g", "e", "_", "m", "a", "p", "p", "i", "n", "g">>, <<"e", "n", "0">>, <<"2">>>>,
      \* add_bridge_mapping en0 6
      <<<<"a", "d", "d", "_", "b", "r", "i", "d", "g", "e", "_", "m", "a", "p", "p", "i", "n", "g">>, <<"e", "n", "0">>, <<"6">>>>,
      \* remove_bridge_mapping en0
      <<<<"r", "e", "m", "o", "v", "e", "_", "b", "r", "i", "d", "g", "e", "_", "m", "a", "p", "p", "i", "n", "g">>, <<"e", "n", "0">>>>}

\* mutant: the number of a well-formed version row is not compared with 1.0
ReadNetworkingConfig_VersionOk_AnyNumber(row) == networkingReadVersion(row)

\* lines 2008-2016 of ReadNetworkingConfig: the version row parses and its
\* number equals 1.0
ReadNetworkingConfig_VersionOk(row) ==
    /\ networkingReadVersion(row)
    /\ LET version == networkingVERSION_Number(row[1])
       IN  version[1] = version[2]

NetInit ==
    /\ netPc = "version"
    /\ netVersion = NoRow
    /\ netRows = <<>>
    /\ netCmds = <<>>
    /\ config = EmptyNetworkingConfig
    /\ netLog = <<>>
    /\ netErr = FALSE

NoDeviceIntoName == [called |-> FALSE, device |-> <<>>, name |-> <<>>, err |-> FALSE]
NetQueryInit ==
    /\ mapper \in {"NetworkingConfig", "NetworkMap"}
    /\ nid = [called |-> FALSE, name |-> <<>>, devices |-> <<>>, err |-> FALSE]
    /\ din = NoDeviceIntoName

\* ReadNetworkingConfig receives the first row and checks the version; on a
\* failure it returns an empty NetworkingConfig and an error
NetReadVersion ==
    /\ mapper = "NetworkingConfig"
    /\ netPc = "version"
    /\ \E row \in VersionRowPool :
        /\ netVersion' = row
        /\ IF ReadNetworkingConfig_VersionOk(row)
           THEN netPc' = "replay" /\ netErr' = FALSE
           ELSE netPc' = "failed" /\ netErr' = TRUE
    /\ UNCHANGED <<netRows, netCmds, config, netLog>>
    /\ UNCHANGED netQueryVars
    /\ UNCHANGED otherThanNet

\* parseNetworkingConfig receives the next row; an entry it parses is handed
\* over the unbuffered channel to flattenNetworkingConfig, which applies it
NetReplayUpTo(pool, max) ==
    /\ mapper = "NetworkingConfig"
    /\ netPc = "replay"
    /\ Len(netRows) < max
    /\ \E row \in pool :
        LET r == parseNetworkingConfig(row)
        IN  /\ netRows' = Append(netRows, row)
            /\ CASE r.status = "ok" ->
                    /\ netCmds' = Append(netCmds, r.entry)
                    /\ config' = flattenNetworkingConfig(config, r.entry)
                    /\ netLog' = netLog \o flattenNetworkingConfigLog(config, r.entry)
                    /\ netPc' = netPc
                 [] r.status = "invalid" ->
                    /\ netLog' = Append(netLog, [msg |-> "invalid command", row |-> row])
                    /\ UNCHANGED <<netCmds, config, netPc>>
                 [] r.status = "error" ->
                    /\ netLog' = Append(netLog, [msg |-> "unable to parse command", row |-> row])
                    /\ UNCHANGED <<netCmds, config, netPc>>
                 [] r.status = "panic" ->
                    /\ netPc' = "crashed"
                    /\ UNCHANGED <<netCmds, config, netLog>>
    /\ UNCHANGED <<netVersion, netErr>>
    /\ UNCHANGED netQueryVars
    /\ UNCHANGED otherThanNet

NetReplay(pool) == NetReplayUpTo(pool, MaxRows)

NetReplayRow == NetReplay(RowPool)
NetReplayClassRow == NetReplay(ClassRowPool)

\* the file ends: the stages close their channels in turn and
\* flattenNetworkingConfig returns the config
NetClose ==
    /\ mapper = "NetworkingConfig"
    /\ netPc = "replay"
    /\ netPc' = "done"
    /\ UNCHANGED <<netVersion, netRows, netCmds, config, netLog, netErr>>
    /\ UNCHANGED netQueryVars
    /\ UNCHANGED otherThanNet

\* candidate arguments of the queries
NetNamePool == {tNAT, tBridged, tHostonly, tEn0}
NetDevicePool == {NetworkingInterfacePrefix \o Itoa(7), tEn0}

NetNameIntoDevices ==
    /\ mapper = "NetworkingConfig"
    /\ netPc = "done"
    /\ \E name \in NetNamePool :
        LET r == NetworkingConfig_NameIntoDevices(config, name)
        IN  nid' = [called |-> TRUE, name |-> name, devices |-> r.devices, err |-> r.err]
    /\ din' = NoDeviceIntoName
    /\ UNCHANGED mapper
    /\ UNCHANGED netVars
    /\ UNCHANGED otherThanNet

NetDeviceIntoName ==
    /\ mapper = "NetworkingConfig"
    /\ netPc = "done"
    /\ \E device \in NetDevicePool \cup Range(nid.devices) :
        LET r == NetworkingConfig_DeviceIntoName(config, device)
        IN  din' = [called |-> TRUE, device |-> device, name |-> r.name, err |-> r.err]
    /\ UNCHANGED <<nid, mapper>>
    /\ UNCHANGED netVars
    /\ UNCHANGED otherThanNet


(***************************************************************************)
(* ReadNetworkMap: parseNetworkMapConfig and the NetworkMap queries        *)
(***************************************************************************)
tDot == <<".">>
tEq == <<"=">>
tNL == <<"\n">>
tName == <<"n", "a", "m", "e">>
tDevice == <<"d", "e", "v", "i", "c", "e">>

\* the characters of the model in ascending byte order
ByteOrder ==
    <<"\n", "\"", "-", ".", "/", "0", "1", "2", "3", "4", "5", "6", "7", "8", "9",
      ":", ";", "=", "A", "B", "C", "D", "E", "F", "G", "H", "I", "J", "K", "L", "M",
      "N", "O", "P", "Q", "R", "S", "T", "U", "V", "W", "X", "Y", "Z", "_",
      "a", "b", "c", "d", "e", "f", "g", "h", "i", "j", "k", "l", "m",
      "n", "o", "p", "q", "r", "s", "t", "u", "v", "w", "x", "y", "z", "{", "}">>
\* a < b as Go compares strings
RECURSIVE StringLess(_, _)
StringLess(a, b) ==
    IF b = <<>> THEN FALSE
    ELSE IF a = <<>> THEN TRUE
    ELSE IF a[1] = b[1] THEN StringLess(Tail(a), Tail(b))
    ELSE IndexOf(ByteOrder, a[1]) < IndexOf(ByteOrder, b[1])
\* sort.Strings over a set of keys
RECURSIVE SortStrings(_)
SortStrings(S) ==
    IF S = {} THEN <<>>
    ELSE LET m == CHOOSE x \in S : \A y \in S \ {x} : StringLess(x, y)
         IN  <<m>> \o SortStrings(S \ {m})

\* strconv.Unquote of a double-quoted string without escape sequences
UnquoteOk(value) ==
    /\ Len(value) >= 2
    /\ value[1] = "\"" /\ value[Len(value)] = "\""
    /\ \A i \in 2..(Len(value) - 1) : value[i] \notin {"\"", "\\", "\n"}
Unquote(value) == SubSeq(value, 2, Len(value) - 1)

\* mutant: an attribute keeps the value of its first assignment
addResult_KeepFirst(unsorted, network, attribute, value) ==
    LET current == IF network \in DOMAIN unsorted THEN unsorted[network] ELSE EmptyMap
    IN  IF ~UnquoteOk(value)
        THEN [ok |-> FALSE, unsorted |-> Put(unsorted, network, current)]
        ELSE IF attribute \in DOMAIN current
        THEN [ok |-> TRUE, unsorted |-> unsorted]
        ELSE [ok |-> TRUE,
              unsorted |-> Put(unsorted, network, Put(current, attribute, Unquote(value)))]

\* the closure addResult: [ok, unsorted]
addResult(unsorted, network, attribute, value) ==
    LET current == IF network \in DOMAIN unsorted THEN unsorted[network] ELSE EmptyMap
    IN  IF ~UnquoteOk(value)
        THEN [ok |-> FALSE, unsorted |-> Put(unsorted, network, current)]
        ELSE [ok |-> TRUE,
              unsorted |-> Put(unsorted, network, Put(current, attribute, Unquote(value)))]

\* one iteration of the loop of parseNetworkMapConfig on token tk, from the
\* parser state p = [state, unsorted, err]
parseNetworkMapToken(p, tk) ==
    IF p.err THEN p
    ELSE CASE tk = tDot ->
                IF Len(p.state) # 1 THEN [p EXCEPT !.err = TRUE] ELSE p
           [] tk = tEq ->
                IF Len(p.state) # 2 THEN [p EXCEPT !.err = TRUE] ELSE p
           [] tk = tNL ->
                IF Len(p.state) = 0 THEN p
                ELSE IF Len(p.state) # 3 THEN [p EXCEPT !.err = TRUE]
                ELSE LET r == addResult(p.unsorted, p.state[1], p.state[2], p.state[3])
                     IN  [state |-> <<>>, unsorted |-> r.unsorted, err |-> ~r.ok]
           [] OTHER -> [p EXCEPT !.state = Append(p.state, tk)]

RECURSIVE parseNetworkMapTokens(_, _)
parseNetworkMapTokens(p, tks) ==
    IF tks = <<>> THEN p
    ELSE parseNetworkMapTokens(parseNetworkMapToken(p, Head(tks)), Tail(tks))

\* the end of parseNetworkMapConfig once the token channel is closed:
\* a pending third token is added, the rows are emitted in key order
parseNetworkMapClose(p) ==
    LET r == IF Len(p.state) = 3
             THEN addResult(p.unsorted, p.state[1], p.state[2], p.state[3])
             ELSE [ok |-> TRUE, unsorted |-> p.unsorted]
        keys == SortStrings(DOMAIN r.unsorted)
    IN  IF ~r.ok THEN [err |-> TRUE, result |-> <<>>]
        ELSE [err |-> FALSE, result |-> [i \in DOMAIN keys |-> r.unsorted[keys[i]]]]

\* mutant: the name is compared exactly
NetworkMap_NameIntoDevices_CaseSensitive(e, name) ==
    LET idx == {i \in DOMAIN e : MapGet(e[i], tName) = name}
        order == SortInts(idx)
    IN  IF idx # {}
        THEN [devices |-> [i \in DOMAIN order |-> MapGet(e[order[i]], tDevice)], err |-> FALSE]
        ELSE [devices |-> <<>>, err |-> TRUE]

NetworkMap_NameIntoDevices(e, name) ==
    LET idx == {i \in DOMAIN e : EqualFold(MapGet(e[i], tName), name)}
        order == SortInts(idx)
    IN  IF idx # {}
        THEN [devices |-> [i \in DOMAIN order |-> MapGet(e[order[i]], tDevice)], err |-> FALSE]
        ELSE [devices |-> <<>>, err |-> TRUE]

NetworkMap_DeviceIntoName(e, device) ==
    LET idx == {i \in DOMAIN e : EqualFold(MapGet(e[i], tDevice), device)}
    IN  IF idx # {}
        THEN [name |-> MapGet(e[CHOOSE i \in idx : \A j \in idx : i <= j], tName), err |-> FALSE]
        ELSE [name |-> <<>>, err |-> TRUE]

\* candidate lines of the network map, as token lists (the last one has no line end)
NmLinePool ==
    {
      \* network0 . name = "Bridged" <newline>
      <<<<"n", "e", "t", "w", "o", "r", "k", "0">>, <<".">>, <<"n", "a", "m", "e">>, <<"=">>, <<"\"", "B", "r", "i", "d", "g", "e", "d", "\"">>, tNL>>,
      \* network0 . device = "vmnet0" <newline>
      <<<<"n", "e", "t", "w", "o", "r", "k", "0">>, <<".">>, <<"d", "e", "v", "i", "c", "e">>, <<"=">>, <<"\"", "v", "m", "n", "e", "t", "0", "\"">>, tNL>>,
      \* network1 . name = "nat" <newline>
      <<<<"n", "e", "t", "w", "o", "r", "k", "1">>, <<".">>, <<"n", "a", "m", "e">>, <<"=">>, <<"\"", "n", "a", "t", "\"">>, tNL>>,
      \* network1 . name = "bridged" <newline>
      <<<<"n", "e", "t", "w", "o", "r", "k", "1">>, <<".">>, <<"n", "a", "m", "e">>, <<"=">>, <<"\"", "b", "r", "i", "d", "g", "e", "d", "\"">>, tNL>>,
      \* network1 . device = "vmnet0" <newline>
      <<<<"n", "e", "t", "w", "o", "r", "k", "1">>, <<".">>, <<"d", "e", "v", "i", "c", "e">>, <<"=">>, <<"\"", "v", "m", "n", "e", "t", "0", "\"">>, tNL>>,
      \* network1 . device = "vmnet8"
      <<<<"n", "e", "t", "w", "o", "r", "k", "1">>, <<".">>, <<"d", "e", "v", "i", "c", "e">>, <<"=">>, <<"\"", "v", "m", "n", "e", "t", "8", "\"">>>>}

\* lines of a network map as token lists, well formed and not
\* network0 . name = "a" <newline>
nmSet0 == <<<<"n", "e", "t", "w", "o", "r", "k", "0">>, <<".">>, <<"n", "a", "m", "e">>, <<"=">>, <<"\"", "a", "\"">>, tNL>>
\* network1 . name = "b" <newline>
nmSet1 == <<<<"n", "e", "t", "w", "o", "r", "k", "1">>, <<".">>, <<"n", "a", "m", "e">>, <<"=">>, <<"\"", "b", "\"">>, tNL>>
\* network0 . name = "c" <newline>
nmSetAgain == <<<<"n", "e", "t", "w", "o", "r", "k", "0">>, <<".">>, <<"n", "a", "m", "e">>, <<"=">>, <<"\"", "c", "\"">>, tNL>>
\* NL
nmBlank == <<tNL>>
\* network1 . name
nmPending == <<<<"n", "e", "t", "w", "o", "r", "k", "1">>, <<".">>, <<"n", "a", "m", "e">>>>
\* network1 . name = "e"
nmLast == <<<<"n", "e", "t", "w", "o", "r", "k", "1">>, <<".">>, <<"n", "a", "m", "e">>, <<"=">>, <<"\"", "e", "\"">>>>
\* . name = "a" <newline>
nmNoIndex == <<<<".">>, <<"n", "a", "m", "e">>, <<"=">>, <<"\"", "a", "\"">>, tNL>>
\* network0 . = "a" <newline>
nmNoAttribute == <<<<"n", "e", "t", "w", "o", "r", "k", "0">>, <<".">>, <<"=">>, <<"\"", "a", "\"">>, tNL>>
\* network0 . name <newline>
nmNoValue == <<<<"n", "e", "t", "w", "o", "r", "k", "0">>, <<".">>, <<"n", "a", "m", "e">>, tNL>>
\* network0 . name = a <newline>
nmUnquoted == <<<<"n", "e", "t", "w", "o", "r", "k", "0">>, <<".">>, <<"n", "a", "m", "e">>, <<"=">>, <<"a">>, tNL>>
\* network0 name "a" <newline>
nmBare == <<<<"n", "e", "t", "w", "o", "r", "k", "0">>, <<"n", "a", "m", "e">>, <<"\"", "a", "\"">>, tNL>>
NmTokenLinePool ==
    {nmSet0, nmSet1, nmSetAgain, nmBlank, nmPending, nmLast,
     nmNoIndex, nmNoAttribute, nmNoValue, nmUnquoted, nmBare}

NmInit ==
    /\ nmPc = "parse"
    /\ nmInput = <<>>
    /\ nmState = <<>>
    /\ nmUnsorted = EmptyMap
    /\ nmResult = <<>>

\* parseNetworkMapConfig receives the tokens of the next line
NmParse(pool) ==
    /\ mapper = "NetworkMap"
    /\ nmPc = "parse"
    /\ Len(nmInput) < MaxLines
    /\ \E line \in pool :
        LET p == parseNetworkMapTokens([state |-> nmState, unsorted |-> nmUnsorted,
                                        err |-> FALSE], line)
        IN  /\ nmInput' = Append(nmInput, line)
            /\ nmState' = p.state
            /\ nmUnsorted' = p.unsorted
            /\ nmPc' = IF p.err THEN "failed" ELSE "parse"
    /\ UNCHANGED nmResult
    /\ UNCHANGED netQueryVars
    /\ UNCHANGED otherThanNm

NmParseLine == NmParse(NmLinePool)
NmParseTokenLine == NmParse(NmTokenLinePool)

\* the token channel is closed
NmClose ==
    /\ mapper = "NetworkMap"
    /\ nmPc = "parse"
    /\ LET r == parseNetworkMapClose([state |-> nmState, unsorted |-> nmUnsorted,
                                      err |-> FALSE])
       IN  /\ nmPc' = IF r.err THEN "failed" ELSE "done"
           /\ nmResult' = r.result
    /\ UNCHANGED <<nmInput, nmState, nmUnsorted>>
    /\ UNCHANGED netQueryVars
    /\ UNCHANGED otherThanNm

NmNamePool == {tNat, tBridged, tHostonly}
NmDevicePool == {tVmnet \o <<"8">>}

NmNameIntoDevices ==
    /\ mapper = "NetworkMap"
    /\ nmPc = "done"
    /\ \E name \in NmNamePool :
        LET r == NetworkMap_NameIntoDevices(nmResult, name)
        IN  nid' = [called |-> TRUE, name |-> name, devices |-> r.devices, err |-> r.err]
    /\ din' = NoDeviceIntoName
    /\ UNCHANGED mapper
    /\ UNCHANGED nmVars
    /\ UNCHANGED otherThanNm

NmDeviceIntoName ==
    /\ mapper = "NetworkMap"
    /\ nmPc = "done"
    /\ \E device \in NmDevicePool \cup Range(nid.devices) :
        LET r == NetworkMap_DeviceIntoName(nmResult, device)
        IN  din' = [called |-> TRUE, device |-> device, name |-> r.name, err |-> r.err]
    /\ UNCHANGED <<nid, mapper>>
    /\ UNCHANGED nmVars
    /\ UNCHANGED otherThanNm

(***************************************************************************)
(* net.IPMask, net.IPNet                                                   *)
(***************************************************************************)
RECURSIVE BitAnd(_, _)
BitAnd(a, b) ==
    IF a = 0 \/ b = 0 THEN 0
    ELSE (a % 2) * (b % 2) + 2 * BitAnd(a \div 2, b \div 2)
RECURSIVE Pow2(_)
Pow2(n) == IF n = 0 THEN 1 ELSE 2 * Pow2(n - 1)

NoMask == <<>>
\* net.CIDRMask(ones, bits): nil when ones is not in 0..bits
CIDRMask(ones, bits) ==
    IF ones < 0 \/ ones > bits THEN NoMask
    ELSE [i \in 1..(bits \div 8) |->
            IF ones >= 8 * i THEN 255
            ELSE IF ones <= 8 * (i - 1) THEN 0
            ELSE 256 - Pow2(8 * i - ones)]

\* net.IPNet.Contains(ip) for n = [IP, Mask]
IPNetContains(n, ip) ==
    LET m == IF Len(n.Mask) = 16 /\ Len(n.IP) = 4 THEN SubSeq(n.Mask, 13, 16) ELSE n.Mask
        usable == /\ Len(n.IP) \in {4, 16}
                  /\ Len(n.Mask) \in {4, 16}
                  /\ (Len(n.Mask) = 4 => Len(n.IP) = 4)
    IN  /\ usable
        /\ Len(ip) = Len(n.IP)
        /\ \A i \in DOMAIN ip : BitAnd(n.IP[i], m[i]) = BitAnd(ip[i], m[i])

(***************************************************************************)
(* The DHCP configuration: tokens, parseTokenParameter, parseDhcpConfig    *)
(***************************************************************************)
tLBrace == <<"{">>
tRBrace == <<"}">>
tSemi == <<";">>
kwInclude == <<"i", "n", "c", "l", "u", "d", "e">>
kwOption == <<"o", "p", "t", "i", "o", "n">>
kwAllow == <<"a", "l", "l", "o", "w">>
kwDeny == <<"d", "e", "n", "y">>
kwIgnore == <<"i", "g", "n", "o", "r", "e">>
kwRange == <<"r", "a", "n", "g", "e">>
kwBootp == <<"b", "o", "o", "t", "p">>
kwRange6 == <<"r", "a", "n", "g", "e", "6">>
kwTemporary == <<"t", "e", "m", "p", "o", "r", "a", "r", "y">>
kwPrefix6 == <<"p", "r", "e", "f", "i", "x", "6">>
kwHardware == <<"h", "a", "r", "d", "w", "a", "r", "e">>
kwFixedAddress == <<"f", "i", "x", "e", "d", "-", "a", "d", "d", "r", "e", "s", "s">>
kwFixedAddress6 == <<"f", "i", "x", "e", "d", "-", "a", "d", "d", "r", "e", "s", "s", "6">>
kwHostIdentifier == <<"h", "o", "s", "t", "-", "i", "d", "e", "n", "t", "i", "f", "i", "e", "r">>
kwNot == <<"n", "o", "t">>
kwGroup == <<"g", "r", "o", "u", "p">>
kwPool == <<"p", "o", "o", "l">>
kwHost == <<"h", "o", "s", "t">>
kwSubnet == <<"s", "u", "b", "n", "e", "t">>
kwNetmask == <<"n", "e", "t", "m", "a", "s", "k">>
kwSubnet6 == <<"s", "u", "b", "n", "e", "t", "6">>
kwSharedNetwork == <<"s", "h", "a", "r", "e", "d", "-", "n", "e", "t", "w", "o", "r", "k">>

\* strings.ContainsAny(s, chars)
ContainsAny(s, chars) == \E i \in DOMAIN chars : chars[i] \in Range(s)

\* parseTokenParameter on the tokens it receives: the first token is the
\* name; a later token that shares a character with "{};" ends the loop
RECURSIVE parseTokenParameterLoop(_, _)
parseTokenParameterLoop(result, in) ==
    IF in = <<>> THEN result
    ELSE IF result.name = <<>>
    THEN parseTokenParameterLoop([result EXCEPT !.name = Head(in)], Tail(in))
    ELSE IF ContainsAny(<<"{", "}", ";">>, Head(in)) THEN result
    ELSE parseTokenParameterLoop([result EXCEPT !.operand = Append(@, Head(in))], Tail(in))
parseTokenParameter(in) == parseTokenParameterLoop([name |-> <<>>, operand |-> <<>>], in)

\* the closure toParameter of parseDhcpConfig: the tokens, line-terminated
toParameter(tokens) == parseTokenParameter(tokens \o <<tSemi>>)

\* a tkGroup tree is a sequence of nodes; a node refers to its parent and to
\* its groups by their position in the sequence (0: no parent); the root
\* (result) is node 1
RootGroup == [parent |-> 0, id |-> [name |-> <<>>, operand |-> <<>>],
              groups |-> <<>>, params |-> <<>>]
EmptyTree == <<RootGroup>>

ErrNone == "none"
ErrCloseGlobal == "refused to close the global declaration"
ErrUnterminated == "list of tokens was left unterminated"

\* mutant: a closing brace at the root is skipped
parseDhcpToken_IgnoreStrayClose(p, tk) ==
    IF p.err # ErrNone THEN p
    ELSE CASE tk = tLBrace ->
                LET grp == Len(p.tree) + 1
                IN  [p EXCEPT !.tree = Append([p.tree EXCEPT ![p.node].groups = Append(@, grp)],
                                              [parent |-> p.node, id |-> toParameter(p.tokens),
                                               groups |-> <<>>, params |-> <<>>]),
                              !.node = grp,
                              !.tokens = <<>>]
           [] tk = tRBrace ->
                IF p.tree[p.node].parent = 0 THEN [p EXCEPT !.tokens = <<>>]
                ELSE IF Len(p.tokens) > 0
                THEN [tree |-> EmptyTree, node |-> 1, tokens |-> p.tokens, err |-> ErrUnterminated]
                ELSE [p EXCEPT !.node = p.tree[p.node].parent, !.tokens = <<>>]
           [] tk = tSemi ->
                [p EXCEPT !.tree[p.node].params = Append(@, toParameter(p.tokens)),
                          !.tokens = <<>>]
           [] OTHER -> [p EXCEPT !.tokens = Append(@, tk)]

\* one iteration of the loop of parseDhcpConfig on token tk, from the parser
\* state p = [tree, node, tokens, err]; on an error the tree returned is empty
parseDhcpToken(p, tk) ==
    IF p.err # ErrNone THEN p
    ELSE CASE tk = tLBrace ->
                LET grp == Len(p.tree) + 1
                IN  [p EXCEPT !.tree = Append([p.tree EXCEPT ![p.node].groups = Append(@, grp)],
                                              [parent |-> p.node, id |-> toParameter(p.tokens),
                                               groups |-> <<>>, params |-> <<>>]),
                              !.node = grp,
                              !.tokens = <<>>]
           [] tk = tRBrace ->
                IF p.tree[p.node].parent = 0
                THEN [tree |-> EmptyTree, node |-> 1, tokens |-> p.tokens, err |-> ErrCloseGlobal]
                ELSE IF Len(p.tokens) > 0
                THEN [tree |-> EmptyTree, node |-> 1, tokens |-> p.tokens, err |-> ErrUnterminated]
                ELSE [p EXCEPT !.node = p.tree[p.node].parent, !.tokens = <<>>]
           [] tk = tSemi ->
                [p EXCEPT !.tree[p.node].params = Append(@, toParameter(p.tokens)),
                          !.tokens = <<>>]
           [] OTHER -> [p EXCEPT !.tokens = Append(@, tk)]

RECURSIVE parseDhcpTokens(_, _)
parseDhcpTokens(p, tks) ==
    IF tks = <<>> THEN p
    ELSE parseDhcpTokens(parseDhcpToken(p, Head(tks)), Tail(tks))

(***************************************************************************)
(* parseParameter, parseTokenGroup, flattenDhcpConfig                      *)
(***************************************************************************)
\* the grant constants
ALLOW == 0
IGNORE == 1
DENY == 2

BitOr(a, b) == a + b - BitAnd(a, b)
\* net.IP.To16 of a modelled address
To16(ip) == IF Len(ip) = 4 THEN <<0, 0, 0, 0, 0, 0, 0, 0, 0, 0, 255, 255>> \o ip ELSE ip
\* net.IP.Mask(mask) on a sixteen-octet address
IPMask16(ip, mask) ==
    IF Len(ip) # 16 \/ Len(mask) # 16 THEN NoIP
    ELSE [i \in 1..16 |-> BitAnd(ip[i], mask[i])]

\* strconv.ParseUint(v, 10, 8) and strconv.ParseUint(v, 16, 8)
ParseUint8Ok(v) == IsDigitString(v) /\ DigitsValue(v) <= 255
ParseHex8Ok(v) == IsHexString(v) /\ HexValue(v) <= 255

\* the range6 case of parseParameter for an address in CIDR form; network
\* and broadcast are the same slice, and an index outside a slice panics
parseParameterRange6Octet(filled, first, bitsLeft) ==
    IF first >= Len(filled) THEN ParsePanic
    ELSE IF filled[first + 1] >= Len(filled) THEN ParsePanic
    ELSE LET broadcast == [filled EXCEPT ![filled[first + 1] + 1] =
                               BitOr(@, Pow2(bitsLeft) - 1)]
         IN  ParseOk([type |-> "pParameterRange6", min |-> broadcast, max |-> broadcast])
parseParameterRange6Broadcast(network, networkSize, totalSize) ==
    IF networkSize \div 8 < totalSize \div 8 /\ network = NoIP THEN ParsePanic
    ELSE parseParameterRange6Octet(
             [i \in DOMAIN network |-> IF i - 1 >= networkSize \div 8 THEN 255
                                       ELSE network[i]],
             networkSize \div 8, (totalSize - networkSize) % 8)
parseParameterRange6Mask(address, bits, mask) ==
    parseParameterRange6Broadcast(IPMask16(address, mask),
                                  IF mask = NoMask THEN 0 ELSE bits,
                                  IF mask = NoMask THEN 0 ELSE 128)
parseParameterRange6Parts(cidr) ==
    IF ~AtoiOk(cidr[2]) THEN ParseError
    ELSE parseParameterRange6Mask(To16(ParseIP(cidr[1])), Atoi(cidr[2]),
                                  CIDRMask(Atoi(cidr[2]), 128))
parseParameterRange6Cidr(address) == parseParameterRange6Parts(SplitN(address, "/", 2))

parseParameter(val) ==
    LET op == val.operand
        length == Len(op)
    IN  CASE val.name = kwInclude ->
               IF length # 2 THEN ParseError
               ELSE ParseOk([type |-> "pParameterInclude", filename |-> op[1]])
          [] val.name = kwOption ->
               IF length # 2 THEN ParseError
               ELSE ParseOk([type |-> "pParameterOption", name |-> op[1], value |-> op[2]])
          [] val.name \in {kwAllow, kwDeny, kwIgnore} ->
               IF length < 1 THEN ParseError
               ELSE ParseOk([type |-> "pParameterGrant", verb |-> ToLower(val.name),
                             attribute |-> Join(op, <<" ">>)])
          [] val.name = kwRange ->
               IF length < 1 THEN ParseError
               ELSE LET idxAddress == IF ToLower(op[1]) = kwBootp THEN 1 ELSE 0
                    \* operand[idxAddress] and operand[idxAddress+1] are read
                    \* whether or not the operands reach that far
                    IN  IF length > 2 + idxAddress THEN ParseError
                        ELSE IF idxAddress + 1 > length THEN ParsePanic
                        ELSE IF idxAddress + 2 > length THEN ParsePanic
                        ELSE ParseOk([type |-> "pParameterRange4",
                                      min |-> ParseIP(op[idxAddress + 1]),
                                      max |-> ParseIP(op[idxAddress + 2])])
          [] val.name = kwRange6 ->
               IF length = 1
               THEN IF \E i \in DOMAIN op[1] : op[1][i] = "/"
                    THEN parseParameterRange6Cidr(op[1])
                    ELSE ParseOk([type |-> "pParameterRange6",
                                  min |-> ParseIP(op[1]), max |-> ParseIP(op[1])])
               ELSE IF length = 2
               THEN IF ToLower(op[2]) = kwTemporary
                    THEN ParseOk([type |-> "pParameterRange6",
                                  min |-> ParseIP(op[1]), max |-> ParseIP(op[1])])
                    ELSE ParseOk([type |-> "pParameterRange6",
                                  min |-> ParseIP(op[1]), max |-> ParseIP(op[2])])
               ELSE ParseError
          [] val.name = kwPrefix6 ->
               IF length # 3 THEN ParseError
               ELSE IF ~AtoiOk(op[3]) THEN ParseError
               ELSE ParseOk([type |-> "pParameterPrefix6", min |-> ParseIP(op[1]),
                             max |-> ParseIP(op[2]), bits |-> Atoi(op[3])])
          [] val.name = kwHardware ->
               IF length # 2 THEN ParseError
               ELSE LET octets == Split(op[2], ":")
                    IN  IF Len(octets) # 6 THEN ParseError
                        ELSE IF \E i \in 1..6 : ~ParseHex8Ok(octets[i]) THEN ParseError
                        ELSE ParseOk([type |-> "pParameterHardware", class |-> op[1],
                                      address |-> [i \in 1..6 |-> HexValue(octets[i])]])
          [] val.name = kwFixedAddress ->
               ParseOk([type |-> "pParameterAddress4", addresses |-> op])
          [] val.name = kwFixedAddress6 ->
               ParseOk([type |-> "pParameterAddress6", addresses |-> op])
          [] val.name = kwHostIdentifier ->
               IF length # 3 THEN ParseError
               ELSE IF op[1] # kwOption THEN ParseError
               ELSE ParseOk([type |-> "pParameterClientMatch", name |-> op[2], data |-> op[3]])
          [] OTHER ->
               IF length < 1
               THEN ParseOk([type |-> "pParameterBoolean", parameter |-> val.name,
                             truancy |-> TRUE])
               ELSE IF length > 1 /\ op[1] = <<"=">>
               THEN ParseOk([type |-> "pParameterExpression", parameter |-> val.name,
                             expression |-> Join(Tail(op), <<>>)])
               ELSE IF length # 1 THEN ParseError
               ELSE IF ToLower(val.name) = kwNot
               THEN ParseOk([type |-> "pParameterBoolean", parameter |-> op[1],
                             truancy |-> FALSE])
               ELSE ParseOk([type |-> "pParameterOther", parameter |-> val.name,
                             value |-> op[1]])

\* parseTokenGroup: the identifier of the declaration a group opens
parseTokenGroup(val) ==
    LET params == val.id.operand
    IN  CASE val.id.name = kwGroup -> ParseOk([type |-> "pDeclarationGroup"])
          [] val.id.name = kwPool -> ParseOk([type |-> "pDeclarationPool"])
          [] val.id.name = kwHost ->
               IF Len(params) = 1
               THEN ParseOk([type |-> "pDeclarationHost", name |-> params[1]])
               ELSE ParseError
          [] val.id.name = kwSubnet ->
               IF Len(params) # 3 THEN ParseError
               ELSE IF ToLower(params[2]) # kwNetmask THEN ParseError
               ELSE LET octets == SplitN(params[3], ".", 4)
                        subnet == ParseIP(params[1])
                    IN  IF \E i \in DOMAIN octets : ~ParseUint8Ok(octets[i]) THEN ParseError
                        ELSE IF subnet = NoIP THEN ParseError
                        ELSE ParseOk([type |-> "pDeclarationSubnet4",
                                      IP |-> subnet,
                                      Mask |-> [i \in 1..4 |-> IF i <= Len(octets)
                                                               THEN DigitsValue(octets[i])
                                                               ELSE 0]])
          [] val.id.name = kwSubnet6 ->
               IF Len(params) # 1 THEN ParseError
               ELSE LET ip6 == SplitN(params[1], "/", 2)
                    IN  IF Len(ip6) = 2 /\ (\E i \in DOMAIN ip6[1] : ip6[1][i] = ":")
                        THEN IF ~AtoiOk(ip6[2]) THEN ParseError
                             ELSE ParseOk([type |-> "pDeclarationSubnet6",
                                           IP |-> ParseIP(ip6[1]),
                                           Mask |-> CIDRMask(Atoi(ip6[2]), 128)])
                        ELSE ParseError
          [] val.id.name = kwSharedNetwork ->
               IF Len(params) = 1
               THEN ParseOk([type |-> "pDeclarationShared", name |-> params[1]])
               ELSE ParseError
          [] val.id.name = <<>> -> ParseOk([type |-> "pDeclarationGlobal"])
          [] OTHER -> ParseError

\* the loop of flattenDhcpConfig over root.params: it stops at the first
\* parameter that does not parse
RECURSIVE flattenParams(_, _)
flattenParams(params, done) ==
    IF params = <<>> THEN ParseOk(done)
    ELSE LET param == parseParameter(Head(params))
         IN  IF param.status # "ok" THEN param
             ELSE flattenParams(Tail(params), Append(done, param.entry))

\* flattenDhcpConfig(root) on node root of the tree: the declarations of
\* the subtree, each under the position of its group, or the first failure
RECURSIVE flattenDhcpConfig(_, _)
RECURSIVE flattenGroups(_, _, _)
flattenGroups(tree, groups, decls) ==
    IF groups = <<>> THEN ParseOk(decls)
    ELSE LET group == flattenDhcpConfig(tree, Head(groups))
         IN  IF group.status # "ok" THEN group
             ELSE flattenGroups(tree, Tail(groups),
                                [n \in DOMAIN decls \cup DOMAIN group.entry |->
                                    IF n \in DOMAIN decls THEN decls[n] ELSE group.entry[n]])
flattenDhcpConfig(tree, root) ==
    LET result == parseTokenGroup(tree[root])
        parameters == flattenParams(tree[root].params, <<>>)
    IN  IF result.status # "ok" THEN result
        ELSE IF parameters.status # "ok" THEN parameters
        ELSE flattenGroups(tree, tree[root].groups,
                           Put(EmptyMap, root,
                               [id |-> result.entry,
                                parameters |-> parameters.entry,
                                declarations |-> tree[root].groups,
                                parent |-> tree[root].parent]))

(***************************************************************************)
(* createDeclaration, ReadDhcpConfiguration and the queries                *)
(***************************************************************************)
\* the loop of createDeclaration that follows the parent pointers: the node
\* first, the root last
RECURSIVE Hierarchy(_, _)
Hierarchy(decls, node) ==
    IF decls[node].parent = 0 THEN <<node>>
    ELSE <<node>> \o Hierarchy(decls, decls[node].parent)

Grant(verb) ==
    CASE verb = kwIgnore -> IGNORE
      [] verb = kwAllow -> ALLOW
      [] verb = kwDeny -> DENY

\* the type switch of createDeclaration on one parameter
updateDeclaration(result, p) ==
    CASE p.type = "pParameterOption" ->
            [result EXCEPT !.options = Put(@, p.name, p.value)]
      [] p.type = "pParameterGrant" ->
            [result EXCEPT !.grants = Put(@, p.attribute, Grant(p.verb))]
      [] p.type = "pParameterBoolean" ->
            [result EXCEPT !.attributes = Put(@, p.parameter, p.truancy)]
      [] p.type = "pParameterClientMatch" ->
            [result EXCEPT !.hostid = Append(@, p)]
      [] p.type = "pParameterExpression" ->
            [result EXCEPT !.expressions = Put(@, p.parameter, p.expression)]
      [] p.type = "pParameterOther" ->
            [result EXCEPT !.parameters = Put(@, p.parameter, p.value)]
      [] OTHER ->
            [result EXCEPT !.address = Append(@, p)]

RECURSIVE updateDeclarations(_, _)
updateDeclarations(result, params) ==
    IF params = <<>> THEN result
    ELSE updateDeclarations(updateDeclaration(result, Head(params)), Tail(params))

EmptyDeclaration ==
    [id |-> <<>>, composites |-> <<>>, address |-> <<>>,
     options |-> EmptyMap, grants |-> EmptyMap, attributes |-> EmptyMap,
     parameters |-> EmptyMap, expressions |-> EmptyMap, hostid |-> <<>>]

\* mutant: the parameters are folded from the node up to the root
RECURSIVE createDeclarationLoop_NodeFirst(_, _, _, _)
createDeclarationLoop_NodeFirst(decls, hierarchy, i, result) ==
    IF i < 1 THEN result
    ELSE LET n == hierarchy[Len(hierarchy) - i + 1]
             withId == [result EXCEPT !.composites = Append(@, n),
                                      !.id = Append(@, decls[n].id)]
         IN  createDeclarationLoop_NodeFirst(decls, hierarchy, i - 1,
                 updateDeclarations(withId, decls[n].parameters))

\* mutant: the identities are appended from the root down to the node
RECURSIVE createDeclarationLoop_RootFirstId(_, _, _, _)
createDeclarationLoop_RootFirstId(decls, hierarchy, i, result) ==
    IF i < 1 THEN result
    ELSE LET n == hierarchy[Len(hierarchy) - i + 1]
             withId == [result EXCEPT !.composites = Append(@, n),
                                      !.id = Append(@, decls[hierarchy[i]].id)]
         IN  createDeclarationLoop_RootFirstId(decls, hierarchy, i - 1,
                 updateDeclarations(withId, decls[hierarchy[i]].parameters))

\* the second loop of createDeclaration, for i down to 1 (Go: i-1 down to 0);
\* a composite is recorded by the position of its declaration
RECURSIVE createDeclarationLoop(_, _, _, _)
createDeclarationLoop(decls, hierarchy, i, result) ==
    IF i < 1 THEN result
    ELSE LET n == hierarchy[Len(hierarchy) - i + 1]
             withId == [result EXCEPT !.composites = Append(@, n),
                                      !.id = Append(@, decls[n].id)]
         IN  createDeclarationLoop(decls, hierarchy, i - 1,
                 updateDeclarations(withId, decls[hierarchy[i]].parameters))

\* mutant: the parameters of the declarations under the node are folded in
\* after those of the hierarchy
RECURSIVE ChildParameters(_, _)
ChildParameters(decls, declarations) ==
    IF declarations = <<>> THEN <<>>
    ELSE decls[Head(declarations)].parameters \o ChildParameters(decls, Tail(declarations))
createDeclaration_WithChildren(decls, node) ==
    LET hierarchy == Hierarchy(decls, node)
    IN  updateDeclarations(
            createDeclarationLoop(decls, hierarchy, Len(hierarchy), EmptyDeclaration),
            ChildParameters(decls, decls[node].declarations))

createDeclaration(decls, node) ==
    LET hierarchy == Hierarchy(decls, node)
    IN  createDeclarationLoop(decls, hierarchy, Len(hierarchy), EmptyDeclaration)

\* mutant: the declarations under a node are visited before the node
RECURSIVE walkDeclarations_ChildrenFirst(_, _)
RECURSIVE walkEach_ChildrenFirst(_, _)
walkEach_ChildrenFirst(decls, declarations) ==
    IF declarations = <<>> THEN <<>>
    ELSE walkDeclarations_ChildrenFirst(decls, Head(declarations))
            \o walkEach_ChildrenFirst(decls, Tail(declarations))
walkDeclarations_ChildrenFirst(decls, root) ==
    walkEach_ChildrenFirst(decls, decls[root].declarations)
        \o <<createDeclaration(decls, root)>>

\* the closure walkDeclarations of ReadDhcpConfiguration: what it writes to
\* the channel, in order
RECURSIVE walkDeclarations(_, _)
RECURSIVE walkEach(_, _)
walkEach(decls, declarations) ==
    IF declarations = <<>> THEN <<>>
    ELSE walkDeclarations(decls, Head(declarations))
            \o walkEach(decls, Tail(declarations))
walkDeclarations(decls, root) ==
    <<createDeclaration(decls, root)>> \o walkEach(decls, decls[root].declarations)

\* the entries a query collects before it counts them
SubnetMatches(e, address) ==
    SelectSeq(e, LAMBDA entry :
        /\ entry.id[1].type \in {"pDeclarationSubnet4", "pDeclarationSubnet6"}
        /\ IPNetContains(entry.id[1], address))
HostMatches(e, host) ==
    SelectSeq(e, LAMBDA entry :
        /\ entry.id[1].type = "pDeclarationHost"
        /\ EqualFold(entry.id[1].name, host))

\* mutant: an ambiguous lookup resolves to its first match
QueryResult_FirstMatch(result) ==
    IF Len(result) = 0 THEN [ok |-> FALSE, entry |-> EmptyDeclaration]
    ELSE [ok |-> TRUE, entry |-> result[1]]
\* the tail of both queries: no match and several matches are errors
QueryResult(result) ==
    IF Len(result) = 0 THEN [ok |-> FALSE, entry |-> EmptyDeclaration]
    ELSE IF Len(result) > 1 THEN [ok |-> FALSE, entry |-> EmptyDeclaration]
    ELSE [ok |-> TRUE, entry |-> result[1]]

SubnetByAddress(e, address) == QueryResult(SubnetMatches(e, address))
HostByName(e, host) == QueryResult(HostMatches(e, host))

(***************************************************************************)
(* The inputs of the DHCP model.                                           *)
(***************************************************************************)
chScalars1 == <<<<"o", "p", "t", "i", "o", "n">>, <<"a">>, <<"1">>, <<";">>, <<"a", "l", "l", "o", "w">>, <<"x">>, <<";">>, <<"f", "l", "a", "g">>, <<";">>, <<"p">>, <<"1">>, <<";">>, <<"e">>, <<"=">>, <<"1">>, <<";">>, <<"f", "i", "x", "e", "d", "-", "a", "d", "d", "r", "e", "s", "s">>, <<"x">>, <<";">>, <<"h", "o", "s", "t", "-", "i", "d", "e", "n", "t", "i", "f", "i", "e", "r">>, <<"o", "p", "t", "i", "o", "n">>, <<"k">>, <<"v">>, <<";">>>>
chScalars2 == <<<<"o", "p", "t", "i", "o", "n">>, <<"a">>, <<"2">>, <<";">>, <<"o", "p", "t", "i", "o", "n">>, <<"b">>, <<"3">>, <<";">>, <<"d", "e", "n", "y">>, <<"x">>, <<";">>, <<"n", "o", "t">>, <<"f", "l", "a", "g">>, <<";">>, <<"h", "a", "r", "d", "w", "a", "r", "e">>, <<"e", "t", "h", "e", "r", "n", "e", "t">>, <<"0", ":", "1", ":", "2", ":", "3", ":", "4", ":", "5">>, <<";">>, <<"h", "o", "s", "t", "-", "i", "d", "e", "n", "t", "i", "f", "i", "e", "r">>, <<"o", "p", "t", "i", "o", "n">>, <<"k">>, <<"w">>, <<";">>>>
chHost == <<<<"h", "o", "s", "t">>, <<"h", "1">>, <<"{">>>>
chHostUpper == <<<<"h", "o", "s", "t">>, <<"H", "1">>, <<"{">>>>
chSubnet == <<<<"s", "u", "b", "n", "e", "t">>, <<"1", "0", ".", "0", ".", "0", ".", "0">>, <<"n", "e", "t", "m", "a", "s", "k">>, <<"2", "5", "5", ".", "2", "5", "5", ".", "2", "5", "5", ".", "0">>, <<"{">>>>
chSubnet6 == <<<<"s", "u", "b", "n", "e", "t", "6">>, <<"f", "d", "0", "0", ":", ":", "/", "8">>, <<"{">>>>
chGroup == <<<<"g", "r", "o", "u", "p">>, <<"{">>>>
chClose == <<tRBrace>>
chUnterminated == <<<<"o", "p", "t", "i", "o", "n">>, <<"a">>, <<"1">>>>

DhChunkPool ==
    {chScalars1, chScalars2, chHost, chSubnet, chGroup, chClose, chUnterminated}
DhScopePool ==
    {chHost, chHostUpper, chSubnet, chSubnet6, chClose}
DhAddressPool ==
    {ParseIP(<<"1", "0", ".", "0", ".", "0", ".", "5">>), ParseIP(<<"1", "0", ".", "1", ".", "0", ".", "5">>),
     ParseIP(<<"f", "d", "0", "0", ":", ":", "1">>)}
DhHostPool == {<<"h", "1">>, <<"h", "2">>}

(***************************************************************************)
(* ReadDhcpConfiguration as a state machine.                               *)
(***************************************************************************)
NoQuery == [op |-> "none"]

DhInit ==
    /\ dhPc = "parse"
    /\ dhInput = <<>>
    /\ dhTree = EmptyTree
    /\ dhNode = 1
    /\ dhTokens = <<>>
    /\ dhErr = ErrNone
    /\ dhGlobal = EmptyMap
    /\ dhResult = <<>>
    /\ dhQuery = NoQuery

\* parseDhcpConfig receives the tokens of one more chunk
DhParse(pool) ==
    /\ dhPc = "parse"
    /\ Len(dhInput) < MaxChunks
    /\ \E chunk \in pool :
         LET p == parseDhcpTokens([tree |-> dhTree, node |-> dhNode,
                                   tokens |-> dhTokens, err |-> ErrNone], chunk)
         IN  /\ dhInput' = Append(dhInput, chunk)
             /\ dhTree' = p.tree
             /\ dhNode' = p.node
             /\ dhTokens' = p.tokens
             /\ dhErr' = p.err
             /\ dhPc' = IF p.err = ErrNone THEN "parse" ELSE "failed"
    /\ UNCHANGED <<dhGlobal, dhResult, dhQuery>>
    /\ UNCHANGED otherThanDh

DhParseChunk == DhParse(DhChunkPool)
DhParseScope == DhParse(DhScopePool)

ErrFlatten == "flattenDhcpConfig"

\* the token channel is closed: parseDhcpConfig returns its tree, and
\* ReadDhcpConfiguration flattens it and walks the declarations
DhClose ==
    /\ dhPc = "parse"
    /\ LET global == flattenDhcpConfig(dhTree, 1)
       IN  CASE global.status = "panic" ->
                  /\ dhPc' = "crashed"
                  /\ UNCHANGED <<dhErr, dhGlobal, dhResult>>
             [] global.status = "error" ->
                  /\ dhPc' = "failed"
                  /\ dhErr' = ErrFlatten
                  /\ UNCHANGED <<dhGlobal, dhResult>>
             [] OTHER ->
                  /\ dhPc' = "done"
                  /\ dhGlobal' = global.entry
                  /\ dhResult' = walkDeclarations(global.entry, 1)
                  /\ UNCHANGED dhErr
    /\ UNCHANGED <<dhInput, dhTree, dhNode, dhTokens, dhQuery>>
    /\ UNCHANGED otherThanDh

DhSubnetByAddress ==
    /\ dhPc = "done"
    /\ \E address \in DhAddressPool :
         LET r == SubnetByAddress(dhResult, address)
         IN  dhQuery' = [op |-> "SubnetByAddress", arg |-> address,
                         ok |-> r.ok, entry |-> r.entry]
    /\ UNCHANGED <<dhPc, dhInput, dhTree, dhNode, dhTokens, dhErr, dhGlobal, dhResult>>
    /\ UNCHANGED otherThanDh

DhHostByName ==
    /\ dhPc = "done"
    /\ \E host \in DhHostPool :
         LET r == HostByName(dhResult, host)
         IN  dhQuery' = [op |-> "HostByName", arg |-> host,
                         ok |-> r.ok, entry |-> r.entry]
    /\ UNCHANGED <<dhPc, dhInput, dhTree, dhNode, dhTokens, dhErr, dhGlobal, dhResult>>
    /\ UNCHANGED otherThanDh

(***************************************************************************)
(* StepShutdown.Run                                                        *)
(***************************************************************************)
HasSuffix(s, p) == Len(s) >= Len(p) /\ SubSeq(s, Len(s) - Len(p) + 1, Len(s)) = p

tLck == <<".", "l", "c", "k">>
tVmxLck == <<".", "v", "m", "x", ".", "l", "c", "k">>

\* lockRegex.MatchString(file) for the expression (?i)\.lck$
lockRegex_MatchString(file) == HasSuffix(ToLower(file), tLck)

\* the value the state bag holds under "error"
ErrSsNone == "none"
ErrSsStart == "error sending shutdown command"
\* mutant: the expiry of the shutdown timer stores no error
ErrSsTimeout_NotStored == "none"
ErrSsTimeout == "timeout waiting for virtual machine to shut down"
ErrSsStop == "error stopping virtual machine"

\* the shutdown commands a template configures; the empty string is no command
tHaltCommand == <<"h", "a", "l", "t">>
SsCommandPool == {<<>>, tHaltCommand}

\* the files of the output directory
SsFilePool ==
    {<<"d", ".", "l", "c", "k">>, <<"v", ".", "v", "m", "x", ".", "l", "c", "k">>,
     <<"V", ".", "V", "M", "X", ".", "L", "C", "K">>, <<"v", ".", "v", "m", "x">>}

SsInit ==
    /\ ssPc = "new"
    /\ ssStep = [Command |-> <<>>, Timeout |-> 0, Testing |-> FALSE]
    /\ vmRunning = TRUE
    /\ ssWaited = 0
    /\ ssLockWaited = 0
    /\ ssError = ErrSsNone
    /\ ssAction = "none"
    /\ ssCalls = <<>>
    /\ ssUi = <<>>

\* the builder configures the step; Timeout counts sleeps of 150 ms
SsConfigure ==
    /\ ssPc = "new"
    /\ \E command \in SsCommandPool, timeout \in 0..MaxTimeout, testing \in BOOLEAN :
          ssStep' = [Command |-> command, Timeout |-> timeout, Testing |-> testing]
    /\ ssPc' = "run"
    /\ UNCHANGED <<vmRunning, ssWaited, ssLockWaited, ssError, ssAction, ssCalls, ssUi>>
    /\ UNCHANGED otherThanSs

\* Run up to its first wait: with a command, comm.Start; without, driver.Stop
SsRun ==
    /\ ssPc = "run"
    /\ \E failed \in BOOLEAN :
          IF ssStep.Command # <<>>
          THEN /\ ssCalls' = Append(ssCalls, "comm.Start")
               /\ vmRunning' = vmRunning
               /\ IF failed
                  THEN /\ ssError' = ErrSsStart
                       /\ ssUi' = ssUi \o <<"Gracefully halting virtual machine...", ErrSsStart>>
                       /\ ssAction' = "ActionHalt"
                       /\ ssPc' = "returned"
                  ELSE /\ ssUi' = Append(ssUi, "Gracefully halting virtual machine...")
                       /\ ssPc' = "shutdownWait"
                       /\ UNCHANGED <<ssError, ssAction>>
          ELSE /\ ssCalls' = Append(ssCalls, "driver.Stop")
               /\ IF failed
                  THEN /\ ssError' = ErrSsStop
                       /\ ssUi' = ssUi \o <<"Forcibly halting virtual machine...", ErrSsStop>>
                       /\ ssAction' = "ActionHalt"
                       /\ ssPc' = "returned"
                       /\ vmRunning' = vmRunning
                  ELSE /\ ssUi' = ssUi \o <<"Forcibly halting virtual machine...",
                                            "Waiting for clean up...">>
                       /\ ssPc' = "lockWait"
                       /\ vmRunning' = FALSE
                       /\ UNCHANGED <<ssError, ssAction>>
    /\ UNCHANGED <<ssStep, ssWaited, ssLockWaited>>
    /\ UNCHANGED otherThanSs

\* the guest carries out the shutdown command
GuestHalts ==
    /\ ssPc = "shutdownWait"
    /\ vmRunning
    /\ vmRunning' = FALSE
    /\ UNCHANGED <<ssPc, ssStep, ssWaited, ssLockWaited, ssError, ssAction, ssCalls, ssUi>>
    /\ UNCHANGED otherThanSs

\* one iteration of the loop that waits for the machine to shut down: the
\* error of driver.IsRunning is dropped and its running is then false
SsShutdownPoll ==
    /\ ssPc = "shutdownWait"
    /\ \E driverErr \in BOOLEAN :
          LET running == vmRunning /\ ~driverErr
          IN  IF ~running
              THEN /\ ssPc' = "lockWait"
                   /\ ssUi' = Append(ssUi, "Waiting for clean up...")
                   /\ UNCHANGED <<ssWaited, ssError, ssAction>>
              ELSE IF ssWaited >= ssStep.Timeout
              THEN /\ ssError' = ErrSsTimeout
                   /\ ssUi' = Append(ssUi, ErrSsTimeout)
                   /\ ssAction' = "ActionHalt"
                   /\ ssPc' = "returned"
                   /\ UNCHANGED ssWaited
              ELSE /\ ssWaited' = ssWaited + 1
                   /\ UNCHANGED <<ssPc, ssUi, ssError, ssAction>>
    /\ UNCHANGED <<ssStep, vmRunning, ssLockWaited, ssCalls>>
    /\ UNCHANGED otherThanSs

\* one iteration of LockWaitLoop; the timer of 120 s fires after
\* LockWaitPolls waits of 150 ms
SsLockPoll ==
    /\ ssPc = "lockWait"
    /\ \E err \in BOOLEAN, files \in SUBSET SsFilePool :
          LET locks == {file \in files : lockRegex_MatchString(file)}
              clean == /\ ~err
                       /\ \/ locks = {}
                          \/ \E file \in locks : locks = {file} /\ HasSuffix(file, tVmxLck)
              leave == clean \/ ssLockWaited >= LockWaitPolls
          IN  IF leave
              THEN /\ IF ssStep.Testing
                      THEN ssPc' = "returned" /\ ssAction' = "ActionContinue"
                      ELSE ssPc' = "sleep" /\ ssAction' = ssAction
                   /\ UNCHANGED ssLockWaited
              ELSE /\ ssLockWaited' = ssLockWaited + 1
                   /\ UNCHANGED <<ssPc, ssAction>>
    /\ UNCHANGED <<ssStep, vmRunning, ssWaited, ssError, ssCalls, ssUi>>
    /\ UNCHANGED otherThanSs

\* the sleep of five seconds of a step that is not under test
SsSleep ==
    /\ ssPc = "sleep"
    /\ ssPc' = "returned"
    /\ ssAction' = "ActionContinue"
    /\ UNCHANGED <<ssStep, vmRunning, ssWaited, ssLockWaited, ssError, ssCalls, ssUi>>
    /\ UNCHANGED otherThanSs

(***************************************************************************)
(* The lease readers: the byte stages                                      *)
(***************************************************************************)
\* the vertical tab, which a TLA+ string cannot spell
chVT == "VT"
\* unicode.IsSpace on the bytes of the model (strings.TrimSpace)
IsSpace(c) == c \in {" ", "\t", "\n", "\r", "\f", chVT}
\* the class \s of package regexp
IsReSpace(c) == c \in {" ", "\t", "\n", "\r", "\f"}

\* the position of the first c in s at or after position from, 0 if none
FirstIndex(s, c, from) ==
    IF \E i \in from..Len(s) : s[i] = c
    THEN CHOOSE i \in from..Len(s) : s[i] = c /\ \A j \in from..(i - 1) : s[j] # c
    ELSE 0

\* strings.TrimSpace
TrimSpace(s) ==
    IF \A i \in DOMAIN s : IsSpace(s[i]) THEN <<>>
    ELSE LET first == CHOOSE i \in DOMAIN s : ~IsSpace(s[i]) /\ \A j \in 1..(i - 1) : IsSpace(s[j])
             last == CHOOSE i \in DOMAIN s : ~IsSpace(s[i]) /\ \A j \in (i + 1)..Len(s) : IsSpace(s[j])
         IN  SubSeq(s, first, last)

\* mutant: the flag is still set when the newline that ends a comment is read
EndOfLine_ThroughNewline(in, i) ==
    \E j \in 1..i : in[j] = "#" /\ \A k \in (j + 1)..(i - 1) : in[k] # "\n"

\* uncomment: the flag endofline after the byte at position i was read; a
\* '#' sets it, a newline clears it
EndOfLine(in, i) ==
    \E j \in 1..i : in[j] = "#" /\ \A k \in (j + 1)..i : in[k] # "\n"
\* what the stage sends: the bytes read while endofline is not set, so the
\* newline that ends a comment is sent
uncomment(in) ==
    LET sent == SelectSeq([i \in DOMAIN in |-> <<i, in[i]>>],
                          LAMBDA by : ~EndOfLine(in, by[1]))
    IN  [i \in DOMAIN sent |-> sent[i][2]]

\* filterOutCharacters(ignore, in): what the stage sends
filterOutCharacters(ignore, in) == SelectSeq(in, LAMBDA by : by \notin ignore)

\* consumeOpenClosePair('{', '}', in): the bytes before the first '{' (all of
\* in when it has none), the bytes the inner stage forwards after '{' up to
\* the first '}', the rest of in when the inner stage has run to its end
\* (afterClose) and when it never got to send its first byte (afterOpen)
consumeOpenClosePairAt(in, open, close) ==
    [result |-> IF open = 0 THEN in ELSE SubSeq(in, 1, open - 1),
     body |-> IF open = 0 THEN <<>>
              ELSE IF close = 0 THEN SubSeq(in, open + 1, Len(in))
              ELSE SubSeq(in, open + 1, close - 1),
     afterOpen |-> IF open = 0 THEN <<>> ELSE SubSeq(in, open + 1, Len(in)),
     afterClose |-> IF open = 0 \/ close = 0 THEN <<>> ELSE SubSeq(in, close + 1, Len(in))]
\* mutant: the inner stage forwards up to the last '}' of the source
consumeOpenClosePairFrom_LastClose(in, open) ==
    consumeOpenClosePairAt(in, open,
        IF open = 0 \/ ~(\E i \in (open + 1)..Len(in) : in[i] = "}") THEN 0
        ELSE CHOOSE i \in (open + 1)..Len(in) :
                 in[i] = "}" /\ \A j \in (i + 1)..Len(in) : in[j] # "}")
consumeOpenClosePairFrom(in, open) ==
    consumeOpenClosePairAt(in, open, IF open = 0 THEN 0 ELSE FirstIndex(in, "}", open + 1))
consumeOpenClosePair(in) == consumeOpenClosePairFrom(in, FirstIndex(in, "{", 1))

\* decodeDhcpdLeaseBytes: the bytes, or an error
NoBytes == [ok |-> FALSE, bytes |-> <<>>]
decodeDhcpdLeaseBytesItems(items) ==
    IF \A i \in DOMAIN items :
          Len(items[i]) = 2 /\ IsHexDigit(items[i][1]) /\ IsHexDigit(items[i][2])
    THEN [ok |-> TRUE,
          bytes |-> [i \in DOMAIN items |-> HexVal(items[i][1]) * 16 + HexVal(items[i][2])]]
    ELSE NoBytes
decodeDhcpdLeaseBytes(input) == decodeDhcpdLeaseBytesItems(Split(input, ":"))

(***************************************************************************)
(* The regular expressions of readDhcpdLeaseEntry                          *)
(***************************************************************************)
NoMatch == [ok |-> FALSE, groups |-> <<>>]

\* the end of the run of characters of s that starts at position p and
\* satisfies the class: the position after the run
RECURSIVE RunEnd(_, _, _)
RunEnd(s, p, isSpace) ==
    IF p > Len(s) THEN p
    ELSE IF (isSpace /\ IsReSpace(s[p])) \/ (~isSpace /\ IsDigit(s[p])) THEN RunEnd(s, p + 1, isSpace)
    ELSE p

\* \s+(.+?)\s*$ matched at position p of s: the group, by leftmost-first
\* matching (\s+ takes all the white space it can, the group is as short as
\* the rest allows); '.' is any character but a newline
MatchTailAt(s, p, q) ==
    IF q = p THEN NoMatch
    ELSE IF q <= Len(s)
    THEN LET last == CHOOSE i \in q..Len(s) :
                        ~IsReSpace(s[i]) /\ \A j \in (i + 1)..Len(s) : IsReSpace(s[j])
         IN  IF \E i \in q..last : s[i] = "\n" THEN NoMatch
             ELSE [ok |-> TRUE, groups |-> <<SubSeq(s, q, last)>>]
    ELSE IF q - p >= 2 /\ s[Len(s)] # "\n"
    THEN [ok |-> TRUE, groups |-> <<SubSeq(s, Len(s), Len(s))>>]
    ELSE NoMatch
MatchTail(s, p) == MatchTailAt(s, p, RunEnd(s, p, TRUE))

\* the keyword is at position i of s
KeywordAt(s, i, kw) == i + Len(kw) - 1 <= Len(s) /\ SubSeq(s, i, i + Len(kw) - 1) = kw

\* FindStringSubmatch: the match at the leftmost position where MatchAt succeeds
FindStringSubmatchIn(s, MatchAt(_, _), positions) ==
    IF positions = {} THEN NoMatch
    ELSE MatchAt(s, CHOOSE i \in positions : \A j \in positions : i <= j)
FindStringSubmatch(s, MatchAt(_, _)) ==
    FindStringSubmatchIn(s, MatchAt, {i \in DOMAIN s : MatchAt(s, i).ok})

\* kw\s+(.+?)\s*$ at position i
MatchKeywordAt(s, i, kw) ==
    IF KeywordAt(s, i, kw) THEN MatchTail(s, i + Len(kw)) ELSE NoMatch

\* kw\s+(\d+)\s+(.+?)\s*$ at position i
MatchTimeFrom(s, d, e) ==
    IF e = d THEN NoMatch
    ELSE IF MatchTail(s, e).ok
    THEN [ok |-> TRUE, groups |-> <<SubSeq(s, d, e - 1)>> \o MatchTail(s, e).groups]
    ELSE NoMatch
MatchTimeAt(s, i, kw) ==
    IF KeywordAt(s, i, kw) /\ RunEnd(s, i + Len(kw), TRUE) > i + Len(kw)
    THEN MatchTimeFrom(s, RunEnd(s, i + Len(kw), TRUE),
                       RunEnd(s, RunEnd(s, i + Len(kw), TRUE), FALSE))
    ELSE NoMatch

tLease == <<"l", "e", "a", "s", "e">>
tStarts == <<"s", "t", "a", "r", "t", "s">>
tEnds == <<"e", "n", "d", "s">>
tHardware == <<"h", "a", "r", "d", "w", "a", "r", "e">>
tEthernet == <<"e", "t", "h", "e", "r", "n", "e", "t">>
tUid == <<"u", "i", "d">>

ipLineReAt(s, i) == MatchKeywordAt(s, i, tLease)
startTimeLineReAt(s, i) == MatchTimeAt(s, i, tStarts)
endTimeLineReAt(s, i) == MatchTimeAt(s, i, tEnds)
\* hardware\s+ethernet\s+(.+?)\s*$ at position i
macLineReAt(s, i) ==
    IF KeywordAt(s, i, tHardware) /\ RunEnd(s, i + Len(tHardware), TRUE) > i + Len(tHardware)
    THEN MatchKeywordAt(s, RunEnd(s, i + Len(tHardware), TRUE), tEthernet)
    ELSE NoMatch
uidLineReAt(s, i) == MatchKeywordAt(s, i, tUid)

ipLineRe(s) == FindStringSubmatch(s, ipLineReAt)
startTimeLineRe(s) == FindStringSubmatch(s, startTimeLineReAt)
endTimeLineRe(s) == FindStringSubmatch(s, endTimeLineReAt)
macLineRe(s) == FindStringSubmatch(s, macLineReAt)
uidLineRe(s) == FindStringSubmatch(s, uidLineReAt)

(***************************************************************************)
(* readDhcpdLeaseEntry and ReadDhcpdLeaseEntries                           *)
(***************************************************************************)
ZeroTime == <<1, 1, 1, 0, 0, 0>>
TwoDigits(s, p) == IsDigit(s[p]) /\ IsDigit(s[p + 1])
Num(s, p, n) == DigitsValue(SubSeq(s, p, p + n - 1))
DaysIn(year, month) ==
    IF month = 2
    THEN (IF year % 4 = 0 /\ (year % 100 # 0 \/ year % 400 = 0) THEN 29 ELSE 28)
    ELSE IF month \in {4, 6, 9, 11} THEN 30 ELSE 31

\* time.Parse("2006/01/02 15:04:05", s): year, month, day, hour, minute and
\* second, or an error; a fraction of a second after the seconds is accepted
\* and not kept here
timeParse(s) ==
    IF /\ Len(s) >= 19
       /\ \A p \in {1, 2, 3, 4} : IsDigit(s[p])
       /\ \A p \in {6, 9, 12, 15, 18} : TwoDigits(s, p)
       /\ s[5] = "/" /\ s[8] = "/" /\ s[11] = " " /\ s[14] = ":" /\ s[17] = ":"
       /\ Num(s, 6, 2) \in 1..12
       /\ Num(s, 9, 2) \in 1..DaysIn(Num(s, 1, 4), Num(s, 6, 2))
       /\ Num(s, 12, 2) < 24 /\ Num(s, 15, 2) < 60 /\ Num(s, 18, 2) < 60
       /\ Len(s) > 19 => (/\ s[20] \in {".", ","}
                          /\ Len(s) > 20
                          /\ \A p \in 21..Len(s) : IsDigit(s[p]))
    THEN [ok |-> TRUE,
          time |-> <<Num(s, 1, 4), Num(s, 6, 2), Num(s, 9, 2),
                     Num(s, 12, 2), Num(s, 15, 2), Num(s, 18, 2)>>]
    ELSE [ok |-> FALSE, time |-> ZeroTime]

NilEntry == [nil |-> TRUE]
EmptyDhcpLeaseEntry ==
    [nil |-> FALSE, address |-> <<>>, starts |-> ZeroTime, ends |-> ZeroTime,
     startsWeekday |-> 0, endsWeekday |-> 0, ether |-> <<>>, uid |-> <<>>, extra |-> <<>>]

\* one iteration of the loop of readDhcpdLeaseEntry over the items of the
\* block: the entry after the item
readDhcpdLeaseItem(entry, itemS) ==
    IF startTimeLineRe(itemS).ok
    THEN [entry EXCEPT !.starts = timeParse(startTimeLineRe(itemS).groups[2]).time,
                       !.startsWeekday = Atoi(startTimeLineRe(itemS).groups[1])]
    ELSE IF endTimeLineRe(itemS).ok
    THEN [entry EXCEPT !.ends = timeParse(endTimeLineRe(itemS).groups[2]).time,
                       !.endsWeekday = Atoi(endTimeLineRe(itemS).groups[1])]
    ELSE IF macLineRe(itemS).ok
    THEN [entry EXCEPT !.ether = decodeDhcpdLeaseBytes(macLineRe(itemS).groups[1]).bytes]
    ELSE IF uidLineRe(itemS).ok
    THEN [entry EXCEPT !.uid = decodeDhcpdLeaseBytes(uidLineRe(itemS).groups[1]).bytes]
    ELSE IF HasSuffix(itemS, <<"}">>) THEN entry
    ELSE [entry EXCEPT !.extra = Append(@, TrimSpace(itemS))]

RECURSIVE readDhcpdLeaseItems(_, _)
readDhcpdLeaseItems(entry, items) ==
    IF items = <<>> THEN entry
    ELSE readDhcpdLeaseItems(readDhcpdLeaseItem(entry, Head(items)), Tail(items))

\* readDhcpdLeaseEntry on the bytes still in the channel: the entry, the
\* error, the bytes left in the channel and whether the inner stage of
\* consumeOpenClosePair is left blocked on its first send. The first byte
\* of the inner stage is always '{', so the two other branches on it are
\* never taken.
readDhcpdLeaseEntryOf(pair) ==
    IF Len(pair.result) = 0
    THEN [entry |-> NilEntry, err |-> FALSE, rest |-> pair.afterOpen, blocked |-> TRUE]
    ELSE IF ~ipLineRe(pair.result).ok
    THEN [entry |-> [EmptyDhcpLeaseEntry EXCEPT !.extra = <<TrimSpace(pair.result)>>],
          err |-> TRUE, rest |-> pair.afterOpen, blocked |-> TRUE]
    ELSE [entry |-> readDhcpdLeaseItems(
                       [EmptyDhcpLeaseEntry EXCEPT !.address = ipLineRe(pair.result).groups[1]],
                       Split(pair.body \o <<"}">>, ";")),
          err |-> FALSE, rest |-> pair.afterClose, blocked |-> FALSE]
readDhcpdLeaseEntry(in) == readDhcpdLeaseEntryOf(consumeOpenClosePair(in))

(***************************************************************************)
(* readAppleDhcpdLeaseEntry and ReadAppleDhcpdLeaseEntries                 *)
(***************************************************************************)
tIpAddress == <<"i", "p", "_", "a", "d", "d", "r", "e", "s", "s">>
tIdentifier == <<"i", "d", "e", "n", "t", "i", "f", "i", "e", "r">>
tHwAddress == <<"h", "w", "_", "a", "d", "d", "r", "e", "s", "s">>

EmptyAppleDhcpLeaseEntry ==
    [nil |-> FALSE, ipAddress |-> <<>>, hwAddress |-> <<>>, id |-> <<>>,
     lease |-> <<>>, name |-> <<>>, extra |-> EmptyMap]

\* the hardware address after the comma, its one-character octets padded
PaddedMac(val) ==
    LET splittedMac == Split(Split(val, ",")[2], ":")
    IN  Join([idx \in DOMAIN splittedMac |->
                 IF Len(splittedMac[idx]) = 1 THEN <<"0">> \o splittedMac[idx]
                 ELSE splittedMac[idx]], <<":">>)

\* the switch on key: st is [entry, mandatoryFieldCount]
readAppleDhcpdLeaseField(st, key, val) ==
    IF key = tIpAddress
    THEN [entry |-> [st.entry EXCEPT !.ipAddress = val],
          mandatoryFieldCount |-> st.mandatoryFieldCount + 1]
    ELSE IF key \in {tIdentifier, tHwAddress}
    THEN (IF Cardinality({i \in DOMAIN val : val[i] = ","}) # 1 THEN st
          ELSE IF ~decodeDhcpdLeaseBytes(PaddedMac(val)).ok THEN st
          ELSE [entry |-> IF key = tIdentifier
                          THEN [st.entry EXCEPT !.id = decodeDhcpdLeaseBytes(PaddedMac(val)).bytes]
                          ELSE [st.entry EXCEPT !.hwAddress = decodeDhcpdLeaseBytes(PaddedMac(val)).bytes],
                mandatoryFieldCount |-> st.mandatoryFieldCount + 1])
    ELSE IF key = tLease THEN [st EXCEPT !.entry.lease = val]
    ELSE IF key = tName THEN [st EXCEPT !.entry.name = val]
    ELSE [st EXCEPT !.entry.extra = Put(@, key, val)]

\* one iteration of the loop over the lines of the block
readAppleDhcpdLeaseLine(st, itemS) ==
    IF "{" \in Range(itemS) \/ "}" \in Range(itemS) THEN st
    ELSE IF Len(Split(itemS, "=")) = 1 THEN st
    ELSE readAppleDhcpdLeaseField(st, TrimSpace(Split(itemS, "=")[1]),
                                  TrimSpace(Join(Tail(Split(itemS, "=")), <<"=">>)))

RECURSIVE readAppleDhcpdLeaseLines(_, _)
readAppleDhcpdLeaseLines(st, items) ==
    IF items = <<>> THEN st
    ELSE readAppleDhcpdLeaseLines(readAppleDhcpdLeaseLine(st, TrimSpace(Head(items))),
                                  Tail(items))

readAppleDhcpdLeaseEntryOf(st, rest) ==
    IF st.mandatoryFieldCount = 0
    THEN [entry |-> NilEntry, err |-> FALSE, rest |-> rest, blocked |-> FALSE]
    ELSE [entry |-> st.entry, err |-> st.mandatoryFieldCount < 3,
          rest |-> rest, blocked |-> FALSE]
readAppleDhcpdLeaseEntryIn(pair) ==
    readAppleDhcpdLeaseEntryOf(
        readAppleDhcpdLeaseLines([entry |-> EmptyAppleDhcpLeaseEntry, mandatoryFieldCount |-> 0],
                                 Split(<<"{">> \o pair.body \o <<"}">>, "\n")),
        pair.afterClose)
readAppleDhcpdLeaseEntry(in) == readAppleDhcpdLeaseEntryIn(consumeOpenClosePair(in))

(***************************************************************************)
(* The lease files and the file-level readers                              *)
(***************************************************************************)
\* pieces of a dhcpd lease file
\* lease 10.0.0.5 {\n hardware ethernet 00:50:56:c0:00:08;\n}\n
dGood == <<"l", "e", "a", "s", "e", " ", "1", "0", ".", "0", ".", "0", ".", "5", " ", "{", "\n", " ", "h", "a", "r", "d", "w", "a", "r", "e", " ", "e", "t", "h", "e", "r", "n", "e", "t", " ", "0", "0", ":", "5", "0", ":", "5", "6", ":", "c", "0", ":", "0", "0", ":", "0", "8", ";", "\n", "}", "\n">>
\* lease 10.0.0.6 {\n starts 3 2020/02/29 03:04:05;\n uid 01:02;\n x y;\n}\n
dTimes == <<"l", "e", "a", "s", "e", " ", "1", "0", ".", "0", ".", "0", ".", "6", " ", "{", "\n", " ", "s", "t", "a", "r", "t", "s", " ", "3", " ", "2", "0", "2", "0", "/", "0", "2", "/", "2", "9", " ", "0", "3", ":", "0", "4", ":", "0", "5", ";", "\n", " ", "u", "i", "d", " ", "0", "1", ":", "0", "2", ";", "\n", " ", "x", " ", "y", ";", "\n", "}", "\n">>
\* {\n ends 4 2020/01/03 03:04:05;\n}\n
dNoHeader == <<"{", "\n", " ", "e", "n", "d", "s", " ", "4", " ", "2", "0", "2", "0", "/", "0", "1", "/", "0", "3", " ", "0", "3", ":", "0", "4", ":", "0", "5", ";", "\n", "}", "\n">>
\* host x {\n}\n
dBadHeader == <<"h", "o", "s", "t", " ", "x", " ", "{", "\n", "}", "\n">>
\* # lease 10.0.0.7 {\n
dComment == <<"#", " ", "l", "e", "a", "s", "e", " ", "1", "0", ".", "0", ".", "0", ".", "7", " ", "{", "\n">>
\* lease 10.0.0.8 {\n uid 0z;\n
dUnclosed == <<"l", "e", "a", "s", "e", " ", "1", "0", ".", "0", ".", "0", ".", "8", " ", "{", "\n", " ", "u", "i", "d", " ", "0", "z", ";", "\n">>
DhcpdChunkPool == {dGood, dTimes, dNoHeader, dBadHeader, dComment, dUnclosed}

\* pieces of an Apple lease file
\* {\n\tip_address=10.0.0.5\n\thw_address=1,0:50:56:c0:0:8\n\tidentifier=1,0:50:56:c0:0:8\n\tlease=0x5f\n\tname=vm\n}\n
aGood == <<"{", "\n", "\t", "i", "p", "_", "a", "d", "d", "r", "e", "s", "s", "=", "1", "0", ".", "0", ".", "0", ".", "5", "\n", "\t", "h", "w", "_", "a", "d", "d", "r", "e", "s", "s", "=", "1", ",", "0", ":", "5", "0", ":", "5", "6", ":", "c", "0", ":", "0", ":", "8", "\n", "\t", "i", "d", "e", "n", "t", "i", "f", "i", "e", "r", "=", "1", ",", "0", ":", "5", "0", ":", "5", "6", ":", "c", "0", ":", "0", ":", "8", "\n", "\t", "l", "e", "a", "s", "e", "=", "0", "x", "5", "f", "\n", "\t", "n", "a", "m", "e", "=", "v", "m", "\n", "}", "\n">>
\* {\n\tname=vm2\n\tk=v=w\n}\n
aNoMandatory == <<"{", "\n", "\t", "n", "a", "m", "e", "=", "v", "m", "2", "\n", "\t", "k", "=", "v", "=", "w", "\n", "}", "\n">>
\* {\n\tip_address=10.0.0.6\n\thw_address=1,zz\n}\n
aPartial == <<"{", "\n", "\t", "i", "p", "_", "a", "d", "d", "r", "e", "s", "s", "=", "1", "0", ".", "0", ".", "0", ".", "6", "\n", "\t", "h", "w", "_", "a", "d", "d", "r", "e", "s", "s", "=", "1", ",", "z", "z", "\n", "}", "\n">>
\* {\n\tip_address=10.0.0.7\n\tip_address=10.0.0.7\n\tip_address=10.0.0.7\n}\n
aRepeated == <<"{", "\n", "\t", "i", "p", "_", "a", "d", "d", "r", "e", "s", "s", "=", "1", "0", ".", "0", ".", "0", ".", "7", "\n", "\t", "i", "p", "_", "a", "d", "d", "r", "e", "s", "s", "=", "1", "0", ".", "0", ".", "0", ".", "7", "\n", "\t", "i", "p", "_", "a", "d", "d", "r", "e", "s", "s", "=", "1", "0", ".", "0", ".", "0", ".", "7", "\n", "}", "\n">>
\* # note\n
aComment == <<"#", " ", "n", "o", "t", "e", "\n">>
\* {\n\tip_address=10.0.0.8\n\thw_address=1,0:1:2:3:4:5\n\tidentifier=1,0:1:2:3:4:5\n
aUnclosed == <<"{", "\n", "\t", "i", "p", "_", "a", "d", "d", "r", "e", "s", "s", "=", "1", "0", ".", "0", ".", "0", ".", "8", "\n", "\t", "h", "w", "_", "a", "d", "d", "r", "e", "s", "s", "=", "1", ",", "0", ":", "1", ":", "2", ":", "3", ":", "4", ":", "5", "\n", "\t", "i", "d", "e", "n", "t", "i", "f", "i", "e", "r", "=", "1", ",", "0", ":", "1", ":", "2", ":", "3", ":", "4", ":", "5", "\n">>
AppleChunkPool == {aGood, aNoMandatory, aPartial, aRepeated, aComment, aUnclosed}

LsInit ==
    /\ lsPc = "new"
    /\ lsFormat = "none"
    /\ lsWritten = 0
    /\ lsFile = <<>>
    /\ lsIn = <<>>
    /\ lsResult = <<>>
    /\ lsErrorList = <<>>
    /\ lsErr = FALSE
    /\ lsBlocked = 0

\* a lease file of one of the two formats is created
LsCreate ==
    /\ lsPc = "new"
    /\ lsFormat' \in {"dhcpd", "apple"}
    /\ lsPc' = "write"
    /\ UNCHANGED <<lsWritten, lsFile, lsIn, lsResult, lsErrorList, lsErr, lsBlocked>>
    /\ UNCHANGED otherThanLs

\* the DHCP daemon appends to its lease file
LsWrite ==
    /\ lsPc = "write"
    /\ lsWritten < MaxLeaseChunks
    /\ \E chunk \in (IF lsFormat = "dhcpd" THEN DhcpdChunkPool ELSE AppleChunkPool) :
          lsFile' = lsFile \o chunk
    /\ lsWritten' = lsWritten + 1
    /\ UNCHANGED <<lsPc, lsFormat, lsIn, lsResult, lsErrorList, lsErr, lsBlocked>>
    /\ UNCHANGED otherThanLs

\* ReadDhcpdLeaseEntries and ReadAppleDhcpdLeaseEntries up to their loop:
\* lsIn is what the stages consumeFile, uncomment and filterOutCharacters
\* will deliver
ReadLeaseEntriesOpen ==
    /\ lsPc = "write"
    /\ lsIn' = IF lsFormat = "dhcpd"
               THEN filterOutCharacters({"\n", "\r", chVT}, uncomment(lsFile))
               ELSE filterOutCharacters({"\r", chVT}, uncomment(lsFile))
    /\ lsPc' = "read"
    /\ UNCHANGED <<lsFormat, lsWritten, lsFile, lsResult, lsErrorList, lsErr, lsBlocked>>
    /\ UNCHANGED otherThanLs

\* one iteration of the loop of the file-level reader, the return included
ReadLeaseEntriesStep(r) ==
    /\ lsIn' = r.rest
    /\ lsBlocked' = lsBlocked + (IF r.blocked THEN 1 ELSE 0)
    /\ IF r.entry.nil
       THEN /\ lsPc' = "returned"
            /\ lsErr' = (Len(lsErrorList) > 0)
            /\ UNCHANGED <<lsResult, lsErrorList>>
       ELSE IF r.err
       THEN /\ lsErrorList' = Append(lsErrorList, r.entry)
            /\ UNCHANGED <<lsPc, lsResult, lsErr>>
       ELSE /\ lsResult' = Append(lsResult, r.entry)
            /\ UNCHANGED <<lsPc, lsErrorList, lsErr>>
ReadLeaseEntriesLoop ==
    /\ lsPc = "read"
    /\ IF lsFormat = "dhcpd" THEN ReadLeaseEntriesStep(readDhcpdLeaseEntry(lsIn))
       ELSE ReadLeaseEntriesStep(readAppleDhcpdLeaseEntry(lsIn))
    /\ UNCHANGED <<lsFormat, lsWritten, lsFile>>
    /\ UNCHANGED otherThanLs

(***************************************************************************)
(* One call of a function of the package: the caller hands over the        *)
(* arguments, the function returns or panics.                              *)
(***************************************************************************)
CallInit ==
    /\ callPc = "new"
    /\ callFn = "none"
    /\ callArgs = <<>>
    /\ callResult = <<>>

Call(fn, args) ==
    /\ callPc = "new"
    /\ callPc' = "called"
    /\ callFn' = fn
    /\ callArgs' = args
    /\ UNCHANGED callResult
    /\ UNCHANGED otherThanCall

Called(fn) == callPc = "called" /\ callFn = fn

Return(fn, result) ==
    /\ Called(fn)
    /\ callPc' = "returned"
    /\ callResult' = result
    /\ UNCHANGED <<callFn, callArgs>>
    /\ UNCHANGED otherThanCall

\* a panic of the called function ends the process
Crash(fn) ==
    /\ Called(fn)
    /\ callPc' = "crashed"
    /\ UNCHANGED <<callFn, callArgs, callResult>>
    /\ UNCHANGED otherThanCall

SeqsUpTo(S, n) == UNION {[1..k -> S] : k \in 0..n}

\* the operands of the range and range6 parameters of a configuration
ip4A == <<"1", "0", ".", "0", ".", "0", ".", "1">>
ip4B == <<"1", "0", ".", "0", ".", "0", ".", "9">>
opJunk == <<"x">>
RangeOperandPool == {kwBootp, ip4A, ip4B, opJunk}
cidr64 == <<"2", "0", "0", "1", ":", "d", "b", "8", ":", ":", "1", "/", "6", "4">>
cidr128 == <<"f", "d", "0", "0", ":", ":", "1", "/", "1", "2", "8">>
cidr0 == <<"f", "d", "0", "0", ":", ":", "1", "/", "0">>
cidr12 == <<"f", "d", "f", "f", ":", ":", "1", "/", "1", "2">>
cidr129 == <<"f", "d", "0", "0", ":", ":", "1", "/", "1", "2", "9">>
cidrBadBits == <<"f", "d", "0", "0", ":", ":", "/", "x">>
cidrBadAddress == <<"x", "/", "8">>
ip6A == <<"f", "d", "0", "0", ":", ":", "1">>
Range6OperandPool ==
    {cidr64, cidr128, cidr0, cidr12, cidr129, cidrBadBits, cidrBadAddress, ip6A, kwTemporary}
ParameterPool ==
    {[name |-> kwRange, operand |-> ops] : ops \in SeqsUpTo(RangeOperandPool, MaxOperands)}
    \cup {[name |-> kwRange6, operand |-> ops] : ops \in SeqsUpTo(Range6OperandPool, MaxOperands - 1)}

CallParseParameter == \E val \in ParameterPool : Call("parseParameter", val)
ReturnParseParameter ==
    /\ Called("parseParameter")
    /\ parseParameter(callArgs).status # "panic"
    /\ Return("parseParameter", parseParameter(callArgs))
CrashParseParameter ==
    /\ Called("parseParameter")
    /\ parseParameter(callArgs).status = "panic"
    /\ Crash("parseParameter")

(***************************************************************************)
(* tokenizeDhcpConfig: the tokens the stage sends for the bytes it reads   *)
(***************************************************************************)
TokenizerStart == [state |-> <<>>, quote |-> FALSE, out |-> <<>>]

\* mutant: whitespace inside a quoted string separates tokens
tokenizeDhcpConfigQuoted_SplitsOnSpace(t, by) ==
    IF by = "\""
    THEN [state |-> <<>>, quote |-> FALSE, out |-> Append(t.out, Append(t.state, by))]
    ELSE IF by = " "
    THEN [t EXCEPT !.out = Append(@, t.state), !.state = <<>>]
    ELSE [t EXCEPT !.state = Append(@, by)]

\* the tokenizer sends the state as it stands, quotes and all
tokenizeDhcpConfigQuoted(t, by) ==
    IF by = "\""
    THEN [state |-> <<>>, quote |-> FALSE, out |-> Append(t.out, Append(t.state, by))]
    ELSE [t EXCEPT !.state = Append(@, by)]

\* one turn of the loop of tokenizeDhcpConfig for the byte by
tokenizeDhcpConfigByte(t, by) ==
    IF t.quote THEN tokenizeDhcpConfigQuoted(t, by)
    ELSE IF by = "\"" THEN [t EXCEPT !.quote = TRUE, !.state = Append(@, by)]
    ELSE IF by \in {"\r", "\n", "\t", " "}
    THEN IF t.state = <<>> THEN t
         ELSE [t EXCEPT !.out = Append(@, t.state), !.state = <<>>]
    ELSE IF by \in {"{", "}", ";"}
    THEN [t EXCEPT !.out = (IF t.state # <<>> THEN Append(@, t.state) ELSE @) \o <<<<by>>>>,
                   !.state = <<>>]
    ELSE [t EXCEPT !.state = Append(@, by)]

RECURSIVE tokenizeDhcpConfigLoop(_, _)
tokenizeDhcpConfigLoop(t, in) ==
    IF in = <<>> THEN t
    ELSE tokenizeDhcpConfigLoop(tokenizeDhcpConfigByte(t, Head(in)), Tail(in))

\* the input is closed: what is left of the state is sent
tokenizeDhcpConfigClose(t) == IF t.state # <<>> THEN Append(t.out, t.state) ELSE t.out

tokenizeDhcpConfig(in) == tokenizeDhcpConfigClose(tokenizeDhcpConfigLoop(TokenizerStart, in))

\* the bytes of the inputs of the tokenizer
TokenizerAlphabet == {"a", "\"", " ", "\n", "{", ";"}

CallTokenizeDhcpConfig ==
    \E in \in SeqsUpTo(TokenizerAlphabet, MaxBytes) : Call("tokenizeDhcpConfig", in)
ReturnTokenizeDhcpConfig ==
    /\ Called("tokenizeDhcpConfig")
    /\ Return("tokenizeDhcpConfig", tokenizeDhcpConfig(callArgs))

\* the bytes of the inputs of the comment stripper
UncommentAlphabet == {"a", "b", "#", "\n"}

CallUncomment == \E in \in SeqsUpTo(UncommentAlphabet, MaxBytes) : Call("uncomment", in)
ReturnUncomment ==
    /\ Called("uncomment")
    /\ Return("uncomment", uncomment(callArgs))

\* what a consumer receives from the channel consumeOpenClosePair returns:
\* the open byte, the bytes forwarded, and the close byte, read or made up
consumeOpenClosePairOut(r) == <<"{">> \o r.body \o <<"}">>

\* the bytes of the sources of consumeOpenClosePair
PairAlphabet == {"a", "b", "{", "}"}

CallConsumeOpenClosePair ==
    \E in \in SeqsUpTo(PairAlphabet, MaxBytes) : Call("consumeOpenClosePair", in)
\* the call returns, and the consumer reads the channel to its end
ReturnConsumeOpenClosePair ==
    /\ Called("consumeOpenClosePair")
    /\ Return("consumeOpenClosePair",
              [result |-> consumeOpenClosePair(callArgs).result,
               out |-> consumeOpenClosePairOut(consumeOpenClosePair(callArgs)),
               in |-> consumeOpenClosePair(callArgs).afterClose])

(***************************************************************************)
(* The goroutines of one Read* call. Every stage is a goroutine that       *)
(* receives from the channel of the stage before it and sends to its own   *)
(* unbuffered channel: a send and its receive are one step.                *)
(***************************************************************************)
\* one turn of the loop of tokenizeNetworkingConfig: [st, out], st being
\* [state, repeatNewline]
tokenizeNetworkingConfigByte(t, by) ==
    IF by \in {"\t", " "}
    THEN IF t.state = <<>> THEN [st |-> t, out |-> <<>>]
         ELSE [st |-> [state |-> <<>>, repeatNewline |-> FALSE], out |-> <<t.state>>]
    ELSE IF by \in {"\r", "\n"}
    THEN IF t.repeatNewline THEN [st |-> t, out |-> <<>>]
         ELSE [st |-> [state |-> <<>>, repeatNewline |-> TRUE],
               out |-> (IF t.state # <<>> THEN <<t.state>> ELSE <<>>) \o <<tNL>>]
    ELSE [st |-> [state |-> Append(t.state, by), repeatNewline |-> FALSE], out |-> <<>>]
tokenizeNetworkingConfigClose(t) == IF t.state # <<>> THEN <<t.state>> ELSE <<>>

\* one turn of the loop of splitNetworkingConfig, st being row
splitNetworkingConfigToken(row, tk) ==
    IF tk = tNL THEN [st |-> <<>>, out |-> IF row # <<>> THEN <<row>> ELSE <<>>]
    ELSE [st |-> Append(row, tk), out |-> <<>>]
splitNetworkingConfigClose(row) == IF row # <<>> THEN <<row>> ELSE <<>>

\* one turn of the loop of the goroutine of parseNetworkingConfig
parseNetworkingConfigRow(row) ==
    [st |-> <<>>,
     out |-> IF Len(row) >= 1 /\ parseNetworkingConfig(row).status = "ok"
             THEN <<parseNetworkingConfig(row).entry>> ELSE <<>>]

\* one turn of the loop of uncomment, st being endofline
uncommentFlag(endofline, by) ==
    IF by = "#" THEN TRUE ELSE IF by = "\n" /\ endofline THEN FALSE ELSE endofline
uncommentByte(endofline, by) ==
    [st |-> uncommentFlag(endofline, by),
     out |-> IF uncommentFlag(endofline, by) THEN <<>> ELSE <<by>>]

\* one turn of the loop of tokenizeDhcpConfig, st being [state, quote]
tokenizeDhcpConfigTurn(r) == [st |-> [state |-> r.state, quote |-> r.quote], out |-> r.out]
tokenizeDhcpConfigStep(t, by) ==
    tokenizeDhcpConfigTurn(
        tokenizeDhcpConfigByte([state |-> t.state, quote |-> t.quote, out |-> <<>>], by))

StageStart(stage) ==
    CASE stage = "tokenizeNetworkingConfig" -> [state |-> <<>>, repeatNewline |-> FALSE]
      [] stage = "tokenizeDhcpConfig" -> [state |-> <<>>, quote |-> FALSE]
      [] stage = "uncomment" -> FALSE
      [] OTHER -> <<>>
\* what a stage does with the item it received: its new state and what it sends
StageStep(stage, st, item) ==
    CASE stage = "tokenizeNetworkingConfig" -> tokenizeNetworkingConfigByte(st, item)
      [] stage = "splitNetworkingConfig" -> splitNetworkingConfigToken(st, item)
      [] stage = "parseNetworkingConfig" -> parseNetworkingConfigRow(item)
      [] stage = "uncomment" -> uncommentByte(st, item)
      [] stage = "tokenizeDhcpConfig" -> tokenizeDhcpConfigStep(st, item)
\* what a stage sends once its input is closed, before it closes its output
StageClose(stage, st) ==
    CASE stage = "tokenizeNetworkingConfig" -> tokenizeNetworkingConfigClose(st)
      [] stage = "splitNetworkingConfig" -> splitNetworkingConfigClose(st)
      [] stage = "tokenizeDhcpConfig" -> tokenizeDhcpConfigClose([state |-> st.state, out |-> <<>>])
      [] OTHER -> <<>>
\* a parser that panics takes the process down
StagePanics(stage, item) ==
    /\ stage = "parseNetworkingConfig"
    /\ Len(item) >= 1
    /\ parseNetworkingConfig(item).status = "panic"

NewStage(name, started) ==
    [name |-> name, st |-> StageStart(name), out |-> <<>>, draining |-> FALSE,
     closes |-> 0, started |-> started]

\* mutant: the item sent last is received first
Dequeue_Last(out) == [item |-> out[Len(out)], rest |-> SubSeq(out, 1, Len(out) - 1)]

\* the sends of a goroutine are received in the order it makes them
Dequeue(out) == [item |-> Head(out), rest |-> Tail(out)]

\* the goroutine is at its receive
Ready(s) == s.started /\ s.out = <<>> /\ ~s.draining /\ s.closes = 0
\* the goroutine is at a send
Sending(s) == s.out # <<>>
Running == plPc \notin {"new", "crashed"}

\* the files of the networking pipeline
\* VERSION=1,0 LF add_nat_prefix 2 /24 LF 
fileGood == <<"V", "E", "R", "S", "I", "O", "N", "=", "1", ",", "0", "\n", "a", "d", "d", "_", "n", "a", "t", "_", "p", "r", "e", "f", "i", "x", " ", "2", " ", "/", "2", "4", "\n">>
\* VERSION=2,0 LF add_nat_prefix 2 /24 LF 
fileBadVersion == <<"V", "E", "R", "S", "I", "O", "N", "=", "2", ",", "0", "\n", "a", "d", "d", "_", "n", "a", "t", "_", "p", "r", "e", "f", "i", "x", " ", "2", " ", "/", "2", "4", "\n">>
\* VERSION=2,0
fileBadVersionOnly == <<"V", "E", "R", "S", "I", "O", "N", "=", "2", ",", "0">>
\* VERSION=1,0 LF add_bridge_mapping en0 x LF 
filePanic == <<"V", "E", "R", "S", "I", "O", "N", "=", "1", ",", "0", "\n", "a", "d", "d", "_", "b", "r", "i", "d", "g", "e", "_", "m", "a", "p", "p", "i", "n", "g", " ", "e", "n", "0", " ", "x", "\n">>
\* VERSION=1,0 LF  LF  foo CR  LF add_bridge_mapping en0 1
fileUntidy == <<"V", "E", "R", "S", "I", "O", "N", "=", "1", ",", "0", "\n", "\n", " ", "f", "o", "o", "\r", "\n", "a", "d", "d", "_", "b", "r", "i", "d", "g", "e", "_", "m", "a", "p", "p", "i", "n", "g", " ", "e", "n", "0", " ", "1">>
\* (empty)
fileEmpty == <<>>
NetworkingFilePool == {fileGood, fileBadVersion, fileBadVersionOnly, filePanic, fileUntidy, fileEmpty}
\* the files of the DHCP configuration pipeline
\* a 1; # c LF g {b;} LF 
fileScopes == <<"a", " ", "1", ";", " ", "#", " ", "c", "\n", "g", " ", "{", "b", ";", "}", "\n">>
\* a;} b;
fileStrayClose == <<"a", ";", "}", " ", "b", ";">>
\* g { a
fileOpenGroup == <<"g", " ", "{", " ", "a">>
\* "x y" ;
fileQuoted == <<"\"", "x", " ", "y", "\"", " ", ";">>
\* (empty)
fileNoStatement == <<>>
\* ;{}
fileEmptyStatement == <<";", "{", "}">>
DhcpFilePool ==
    {fileScopes, fileStrayClose, fileOpenGroup, fileQuoted, fileNoStatement, fileEmptyStatement}

PlInit ==
    /\ plPc = "new"
    /\ plReader = "none"
    /\ plInput = <<>>
    /\ plFile = <<>>
    /\ plStage = <<>>
    /\ plMain = <<>>
    /\ plDelivered = <<>>
    /\ plErr = FALSE

\* ReadNetworkingConfig starts its stages and waits for the version row;
\* the goroutine of parseNetworkingConfig is started after that row
PlReadNetworkingConfig ==
    /\ plPc = "new"
    /\ \E file \in NetworkingFilePool : plInput' = file /\ plFile' = file
    /\ plReader' = "ReadNetworkingConfig"
    /\ plStage' = <<NewStage("consumeFile", TRUE), NewStage("tokenizeNetworkingConfig", TRUE),
                    NewStage("splitNetworkingConfig", TRUE),
                    NewStage("parseNetworkingConfig", FALSE)>>
    /\ plPc' = "version"
    /\ UNCHANGED <<plMain, plDelivered, plErr>>
    /\ UNCHANGED otherThanPl

\* ReadDhcpConfiguration starts its stages and runs parseDhcpConfig
PlReadDhcpConfiguration ==
    /\ plPc = "new"
    /\ \E file \in DhcpFilePool : plInput' = file /\ plFile' = file
    /\ plReader' = "ReadDhcpConfiguration"
    /\ plStage' = <<NewStage("consumeFile", TRUE), NewStage("uncomment", TRUE),
                    NewStage("tokenizeDhcpConfig", TRUE)>>
    /\ plMain' = [tree |-> EmptyTree, node |-> 1, tokens |-> <<>>, err |-> ErrNone]
    /\ plPc' = "parse"
    /\ UNCHANGED <<plDelivered, plErr>>
    /\ UNCHANGED otherThanPl

\* consumeFile reads the next byte, or closes its channel at the end of the file
PlConsumeFile ==
    /\ Running
    /\ Ready(plStage[1])
    /\ IF plFile # <<>>
       THEN /\ plStage' = [plStage EXCEPT ![1].out = <<Head(plFile)>>]
            /\ plFile' = Tail(plFile)
       ELSE /\ plStage' = [plStage EXCEPT ![1].closes = @ + 1]
            /\ UNCHANGED plFile
    /\ UNCHANGED <<plPc, plReader, plInput, plMain, plDelivered, plErr>>
    /\ UNCHANGED otherThanPl

\* a stage receives what the stage before it sends
PlSend ==
    /\ Running
    /\ \E i \in 2..Len(plStage) :
         /\ Sending(plStage[i - 1])
         /\ Ready(plStage[i])
         /\ IF StagePanics(plStage[i].name, Dequeue(plStage[i - 1].out).item)
            THEN plPc' = "crashed" /\ UNCHANGED plStage
            ELSE /\ plStage' =
                     [plStage EXCEPT
                        ![i - 1].out = Dequeue(plStage[i - 1].out).rest,
                        ![i].st = StageStep(plStage[i].name, plStage[i].st,
                                            Dequeue(plStage[i - 1].out).item).st,
                        ![i].out = StageStep(plStage[i].name, plStage[i].st,
                                             Dequeue(plStage[i - 1].out).item).out]
                 /\ UNCHANGED plPc
    /\ UNCHANGED <<plReader, plInput, plFile, plMain, plDelivered, plErr>>
    /\ UNCHANGED otherThanPl

\* a stage finds the channel of the stage before it closed and leaves its loop
PlInputClosed ==
    /\ Running
    /\ \E i \in 2..Len(plStage) :
         /\ plStage[i - 1].closes > 0
         /\ Ready(plStage[i])
         /\ plStage' = [plStage EXCEPT ![i].draining = TRUE,
                                       ![i].out = StageClose(plStage[i].name, plStage[i].st)]
    /\ UNCHANGED <<plPc, plReader, plInput, plFile, plMain, plDelivered, plErr>>
    /\ UNCHANGED otherThanPl

\* a stage that has left its loop and sent what it had left closes its channel
PlCloseOut ==
    /\ Running
    /\ \E i \in 2..Len(plStage) :
         /\ plStage[i].draining
         /\ plStage[i].out = <<>>
         /\ plStage[i].closes = 0
         /\ plStage' = [plStage EXCEPT ![i].closes = @ + 1]
    /\ UNCHANGED <<plPc, plReader, plInput, plFile, plMain, plDelivered, plErr>>
    /\ UNCHANGED otherThanPl

\* ReadNetworkingConfig receives the first row (nil from a closed channel)
PlVersionRow(row) ==
    /\ IF ReadNetworkingConfig_VersionOk(row)
       THEN plPc' = "flatten" /\ plErr' = FALSE
       ELSE plPc' = "returned" /\ plErr' = TRUE
    /\ plStage' = [plStage EXCEPT
                      ![3].out = IF Sending(plStage[3]) THEN Dequeue(@).rest ELSE @,
                      ![4].started = ReadNetworkingConfig_VersionOk(row)]
PlReadVersion ==
    /\ plPc = "version"
    /\ Sending(plStage[3]) \/ plStage[3].closes > 0
    /\ PlVersionRow(IF Sending(plStage[3]) THEN Dequeue(plStage[3].out).item ELSE NoRow)
    /\ UNCHANGED <<plReader, plInput, plFile, plMain, plDelivered>>
    /\ UNCHANGED otherThanPl

\* flattenNetworkingConfig receives the next entry, or returns when the
\* channel of entries is closed
PlFlatten ==
    /\ plPc = "flatten"
    /\ Sending(plStage[4]) \/ plStage[4].closes > 0
    /\ IF Sending(plStage[4])
       THEN /\ plDelivered' = Append(plDelivered, Dequeue(plStage[4].out).item)
            /\ plStage' = [plStage EXCEPT ![4].out = Dequeue(@).rest]
            /\ UNCHANGED plPc
       ELSE /\ plPc' = "returned"
            /\ UNCHANGED <<plStage, plDelivered>>
    /\ UNCHANGED <<plReader, plInput, plFile, plMain, plErr>>
    /\ UNCHANGED otherThanPl

\* parseDhcpConfig receives the next token, and returns on an error or when
\* the channel of tokens is closed
PlParseToken(tk) ==
    /\ plMain' = parseDhcpToken(plMain, tk)
    /\ plDelivered' = Append(plDelivered, tk)
    /\ plStage' = [plStage EXCEPT ![3].out = Dequeue(@).rest]
    /\ IF parseDhcpToken(plMain, tk).err # ErrNone
       THEN plPc' = "returned" /\ plErr' = TRUE
       ELSE UNCHANGED <<plPc, plErr>>
PlParseDhcpConfig ==
    /\ plPc = "parse"
    /\ Sending(plStage[3]) \/ plStage[3].closes > 0
    /\ IF Sending(plStage[3])
       THEN PlParseToken(Dequeue(plStage[3].out).item)
       ELSE /\ plPc' = "returned"
            /\ UNCHANGED <<plStage, plMain, plDelivered, plErr>>
    /\ UNCHANGED <<plReader, plInput, plFile>>
    /\ UNCHANGED otherThanPl

(***************************************************************************)
(* ConfigDeclaration.Hardware                                              *)
(***************************************************************************)
IsHardware(p) == p.type = "pParameterHardware"
\* result: the pParameterHardware entries of e.address, in order
HardwareParameters(address) == SelectSeq(address, IsHardware)
\* the test of the error is len(result) > 0; past it result[0] is read
Hardware(address) ==
    IF Len(HardwareParameters(address)) > 0
    THEN [status |-> "error", res |-> <<>>]
    ELSE IF Len(HardwareParameters(address)) = 0
    THEN [status |-> "panic", res |-> <<>>]
    ELSE [status |-> "ok", res |-> HardwareParameters(address)[1].address]

\* the address entries of a declaration: two hardware parameters and a
\* fixed-address parameter
hwA == [type |-> "pParameterHardware", class |-> <<"e", "t", "h", "e", "r", "n", "e", "t">>,
        address |-> <<0, 80, 86, 192, 0, 8>>]
hwB == [type |-> "pParameterHardware", class |-> <<"e", "t", "h", "e", "r", "n", "e", "t">>,
        address |-> <<0, 1, 2, 3, 4, 5>>]
fixedA == [type |-> "pParameterAddress4", addresses |-> <<ip4A>>]
AddressPool == {hwA, hwB, fixedA}

CallHardware == \E address \in SeqsUpTo(AddressPool, MaxAddresses) : Call("Hardware", address)
ReturnHardware ==
    /\ Called("Hardware")
    /\ Hardware(callArgs).status # "panic"
    /\ Return("Hardware", Hardware(callArgs))
CrashHardware ==
    /\ Called("Hardware")
    /\ Hardware(callArgs).status = "panic"
    /\ Crash("Hardware")

(***************************************************************************)
(* toParameter: the goroutine that feeds the tokens and the closing ";"    *)
(* to parseTokenParameter over an unbuffered channel.                      *)
(***************************************************************************)
\* a word, a quoted token and a quoted token that holds a ";"
tkA == <<"a">>
tkB == <<"b">>
tkQuoted == <<"\"", "x", " ", "y", "\"">>
tkQuotedSemi == <<"\"", "x", ";", "y", "\"">>
\* the tokens parseDhcpConfig collects are tokens of tokenizeDhcpConfig
ParameterTokenPool == {tk \in {tkA, tkB, tkQuoted, tkQuotedSemi} : tokenizeDhcpConfig(tk) = <<tk>>}

\* what the goroutine sends: the tokens, then ";"
toParameterFeed(tokens) == tokens \o <<tSemi>>

\* toParameter starts the goroutine and calls parseTokenParameter; callResult
\* is the result so far, how many sends were received, and whether the
\* goroutine has closed the channel
ToParameterCall ==
    /\ callPc = "new"
    /\ \E tokens \in SeqsUpTo(ParameterTokenPool, MaxTokens) : callArgs' = tokens
    /\ callPc' = "called"
    /\ callFn' = "toParameter"
    /\ callResult' = [name |-> <<>>, operand |-> <<>>, sent |-> 0, closed |-> FALSE]
    /\ UNCHANGED otherThanCall

\* parseTokenParameter receives the next token the goroutine sends
ToParameterReceive(token) ==
    /\ IF callResult.name = <<>>
       THEN callResult' = [callResult EXCEPT !.name = token, !.sent = @ + 1]
            /\ UNCHANGED callPc
       ELSE IF ContainsAny(<<"{", "}", ";">>, token)
       THEN callResult' = [callResult EXCEPT !.sent = @ + 1]
            /\ callPc' = "returned"
       ELSE callResult' = [callResult EXCEPT !.operand = Append(@, token), !.sent = @ + 1]
            /\ UNCHANGED callPc
ToParameterSend ==
    /\ Called("toParameter")
    /\ ~callResult.closed
    /\ callResult.sent < Len(toParameterFeed(callArgs))
    /\ ToParameterReceive(toParameterFeed(callArgs)[callResult.sent + 1])
    /\ UNCHANGED <<callFn, callArgs>>
    /\ UNCHANGED otherThanCall

\* the goroutine has sent everything and closes the channel
ToParameterClose ==
    /\ callFn = "toParameter"
    /\ callPc \in {"called", "returned"}
    /\ ~callResult.closed
    /\ callResult.sent = Len(toParameterFeed(callArgs))
    /\ callResult' = [callResult EXCEPT !.closed = TRUE]
    /\ UNCHANGED <<callPc, callFn, callArgs>>
    /\ UNCHANGED otherThanCall

\* parseTokenParameter finds the channel closed and returns
ToParameterClosed ==
    /\ Called("toParameter")
    /\ callResult.closed
    /\ callPc' = "returned"
    /\ UNCHANGED <<callFn, callArgs, callResult>>
    /\ UNCHANGED otherThanCall

(***************************************************************************)
(* StepExport.Run                                                          *)
(***************************************************************************)
\* --noSSLVerify=true
tNoSSLVerify == <<"-", "-", "n", "o", "S", "S", "L", "V", "e", "r", "i", "f", "y", "=", "t", "r", "u", "e">>
\* --skipManifestCheck
tSkipManifestCheck == <<"-", "-", "s", "k", "i", "p", "M", "a", "n", "i", "f", "e", "s", "t", "C", "h", "e", "c", "k">>
\* -tt=
tTT == <<"-", "t", "t", "=">>
\* vi://
tViScheme == <<"v", "i", ":", "/", "/">>
\* ovftool
tOvftool == <<"o", "v", "f", "t", "o", "o", "l">>
\* <password>
tHiddenPassword == <<"<", "p", "a", "s", "s", "w", "o", "r", "d", ">">>
\* esxi
tEsxi == <<"e", "s", "x", "i">>
\* ovf
tOvf == <<"o", "v", "f">>
\* vm
tVmName == <<"v", "m">>
\* .vmx
tDotVmx == <<".", "v", "m", "x">>
\* Skipping export of virtual machine...
tSkipping == <<"S", "k", "i", "p", "p", "i", "n", "g", " ", "e", "x", "p", "o", "r", "t", " ", "o", "f", " ", "v", "i", "r", "t", "u", "a", "l", " ", "m", "a", "c", "h", "i", "n", "e", ".", ".", ".">>
\* Exporting virtual machine...
tExporting == <<"E", "x", "p", "o", "r", "t", "i", "n", "g", " ", "v", "i", "r", "t", "u", "a", "l", " ", "m", "a", "c", "h", "i", "n", "e", ".", ".", ".">>
\* Executing: 
tExecuting == <<"E", "x", "e", "c", "u", "t", "i", "n", "g", ":", " ">>
\* error creating export directory
tErrMkdir == <<"e", "r", "r", "o", "r", " ", "c", "r", "e", "a", "t", "i", "n", "g", " ", "e", "x", "p", "o", "r", "t", " ", "d", "i", "r", "e", "c", "t", "o", "r", "y">>
\* error generating ovftool export args
tErrArgs == <<"e", "r", "r", "o", "r", " ", "g", "e", "n", "e", "r", "a", "t", "i", "n", "g", " ", "o", "v", "f", "t", "o", "o", "l", " ", "e", "x", "p", "o", "r", "t", " ", "a", "r", "g", "s">>
\* error performing ovftool export
tErrExport == <<"e", "r", "r", "o", "r", " ", "p", "e", "r", "f", "o", "r", "m", "i", "n", "g", " ", "o", "v", "f", "t", "o", "o", "l", " ", "e", "x", "p", "o", "r", "t">>
\* esx1
seHost == <<"e", "s", "x", "1">>
\* esx 1
seBadHost == <<"e", "s", "x", " ", "1">>
\* root
seUser == <<"r", "o", "o", "t">>
\* pa
sePasswordA == <<"p", "a">>
\* p@<
sePasswordB == <<"p", "@", "<">>
\* out
seOutput == <<"o", "u", "t">>
\* dir
seDir == <<"d", "i", "r">>
\* --x
seOption == <<"-", "-", "x">>

\* the escaping url.URL.String applies to a byte of the user name and of the
\* password: letters and digits are kept, '@', '/', '?', ':' and every byte
\* outside the reserved set are written as %XX
EscapeUserByte(c) ==
    CASE c = "@" -> <<"%", "4", "0">>
      [] c = ":" -> <<"%", "3", "A">>
      [] c = "/" -> <<"%", "2", "F">>
      [] c = "<" -> <<"%", "3", "C">>
      [] c = ">" -> <<"%", "3", "E">>
      [] OTHER -> <<c>>
RECURSIVE EscapeUser(_)
EscapeUser(s) == IF s = <<>> THEN <<>> ELSE EscapeUserByte(Head(s)) \o EscapeUser(Tail(s))
\* url.Parse of vi://host/displayName fails on a space in the host
UrlParseOk(host) == \A i \in DOMAIN host : host[i] # " "
\* u.String() after u.User = url.UserPassword(user, password), for a display
\* name of letters
UrlString(user, password, host, displayName) ==
    tViScheme \o EscapeUser(user) \o <<":">> \o EscapeUser(password) \o <<"@">> \o host
        \o <<"/">> \o displayName
\* filepath.Join of a directory and a file name, both clean
FilepathJoin(dir, file) == IF dir = <<>> THEN file ELSE dir \o <<"/">> \o file

\* mutant: the password is never replaced by the placeholder
generateRemoteExportArgs_NeverHidden(s, c, displayName, hidePassword, exportOutputPath) ==
    IF ~UrlParseOk(c.RemoteHost) THEN [err |-> TRUE, args |-> <<>>]
    ELSE [err |-> FALSE,
          args |-> s.OVFToolOptions \o
                   <<tNoSSLVerify, tSkipManifestCheck, tTT \o s.Format,
                     UrlString(c.RemoteUser, c.RemotePassword, c.RemoteHost, displayName),
                     FilepathJoin(exportOutputPath, s.VMName \o <<".">> \o s.Format)>>]

generateRemoteExportArgs(s, c, displayName, hidePassword, exportOutputPath) ==
    IF ~UrlParseOk(c.RemoteHost) THEN [err |-> TRUE, args |-> <<>>]
    ELSE [err |-> FALSE,
          args |-> s.OVFToolOptions \o
                   <<tNoSSLVerify, tSkipManifestCheck, tTT \o s.Format,
                     UrlString(c.RemoteUser,
                               IF hidePassword THEN tHiddenPassword ELSE c.RemotePassword,
                               c.RemoteHost, displayName),
                     FilepathJoin(exportOutputPath, s.VMName \o <<".">> \o s.Format)>>]
generateLocalExportArgs(s, exportOutputPath) ==
    [err |-> FALSE,
     args |-> s.OVFToolOptions \o
              <<FilepathJoin(exportOutputPath, s.VMName \o tDotVmx),
                FilepathJoin(exportOutputPath, s.VMName \o <<".">> \o s.Format)>>]

\* the line ui.Sayf writes
ExecutingLine(uiArgs) == tExecuting \o tOvftool \o <<" ">> \o Join(uiArgs, <<" ">>)
\* export_output_path of the state bag, else OutputDir, else VMName
ExportOutputPath(a) ==
    IF a.export_output_path # <<>> THEN a.export_output_path
    ELSE IF a.s.OutputDir # <<>> THEN a.s.OutputDir
    ELSE a.s.VMName

\* what Run has done when it returns
Halted(ui, err) == [action |-> "ActionHalt", ui |-> Append(ui, err), error |-> err, exports |-> <<>>]
\* driver.Export and the return after it
RunExport(a, ui, args) ==
    IF a.exportErr
    THEN [action |-> "ActionHalt", ui |-> Append(ui, tErrExport), error |-> tErrExport,
          exports |-> <<args>>]
    ELSE [action |-> "ActionContinue", ui |-> ui, error |-> <<>>, exports |-> <<args>>]
\* the esxi branch: the arguments with the password hidden, for the ui, then
\* the arguments again with the password, for the driver
RunRemote(a, ui) ==
    IF generateRemoteExportArgs(a.s, a.c, a.display_name, TRUE, ExportOutputPath(a)).err
    THEN Halted(ui, tErrArgs)
    ELSE IF generateRemoteExportArgs(a.s, a.c, a.display_name, FALSE, ExportOutputPath(a)).err
    THEN Halted(Append(ui, ExecutingLine(
             generateRemoteExportArgs(a.s, a.c, a.display_name, TRUE, ExportOutputPath(a)).args)),
           tErrArgs)
    ELSE RunExport(a,
             Append(ui, ExecutingLine(
                 generateRemoteExportArgs(a.s, a.c, a.display_name, TRUE, ExportOutputPath(a)).args)),
             generateRemoteExportArgs(a.s, a.c, a.display_name, FALSE, ExportOutputPath(a)).args)
\* the other branch: the outer uiArgs is never assigned
RunLocal(a, ui) ==
    RunExport(a, Append(ui, ExecutingLine(<<>>)),
              generateLocalExportArgs(a.s, ExportOutputPath(a)).args)
StepExportRun(a) ==
    IF a.s.SkipExport
    THEN [action |-> "ActionContinue", ui |-> <<tSkipping>>, error |-> <<>>, exports |-> <<>>]
    ELSE IF a.mkdirErr THEN Halted(<<>>, tErrMkdir)
    ELSE IF a.c.RemoteType = tEsxi THEN RunRemote(a, <<tExporting>>)
    ELSE RunLocal(a, <<tExporting>>)

\* the steps, configurations and state bags Run is called with
StepExportPool ==
    [Format : {tOvf}, SkipExport : BOOLEAN, VMName : {tVmName},
     OVFToolOptions : {<<>>, <<seOption>>}, OutputDir : {<<>>, seDir}]
DriverConfigPool ==
    [RemoteType : {<<>>, tEsxi}, RemoteHost : {seHost, seBadHost}, RemoteUser : {seUser},
     RemotePassword : {<<>>, sePasswordA, sePasswordB}]
StepExportArgs ==
    [s : StepExportPool, c : DriverConfigPool, export_output_path : {<<>>, seOutput},
     display_name : {tVmName}, mkdirErr : BOOLEAN, exportErr : BOOLEAN]

CallStepExportRun == \E a \in StepExportArgs : Call("StepExport.Run", a)
ReturnStepExportRun ==
    /\ Called("StepExport.Run")
    /\ Return("StepExport.Run", StepExportRun(callArgs))

(***************************************************************************)
(* Specifications                                                          *)
(***************************************************************************)
\* the replay of a networking log
NetworkingInit == NetInit /\ NetQueryInit /\ mapper = "NetworkingConfig" /\ NmInit /\ DhInit /\ SsInit /\ LsInit /\ CallInit /\ PlInit
NetworkingNext == NetReadVersion \/ NetReplayRow \/ NetClose
SpecNetworking == NetworkingInit /\ [][NetworkingNext]_vars

\* the two NetworkNameMapper implementations, each built by its reader and
\* then queried
NameMapperInit == NetInit /\ NetQueryInit /\ NmInit /\ DhInit /\ SsInit /\ LsInit /\ CallInit /\ PlInit
NameMapperNext ==
    \/ NetReadVersion \/ NetReplayClassRow \/ NetClose
    \/ NetNameIntoDevices \/ NetDeviceIntoName
    \/ NmParseLine \/ NmClose \/ NmNameIntoDevices \/ NmDeviceIntoName
SpecNameMapper == NameMapperInit /\ [][NameMapperNext]_vars

\* the DHCP configuration: statements and scopes, parsed and flattened
DhcpInit == NetInit /\ NetQueryInit /\ mapper = "NetworkingConfig" /\ NmInit /\ DhInit /\ SsInit /\ LsInit /\ CallInit /\ PlInit
DhcpNext == DhParseChunk \/ DhClose
SpecDhcp == DhcpInit /\ [][DhcpNext]_vars

\* the shutdown step and the machine it shuts down
ShutdownNext == SsConfigure \/ SsRun \/ GuestHalts \/ SsShutdownPoll \/ SsLockPoll \/ SsSleep
SpecShutdown == DhcpInit /\ [][ShutdownNext]_vars

\* the lease files, written and read
LeasesNext == LsCreate \/ LsWrite \/ ReadLeaseEntriesOpen \/ ReadLeaseEntriesLoop
SpecLeases == DhcpInit /\ [][LeasesNext]_vars

\* the DHCP configuration: scopes, parsed, flattened and queried
DhcpQueryNext == DhParseScope \/ DhClose \/ DhSubnetByAddress \/ DhHostByName
SpecDhcpQuery == DhcpInit /\ [][DhcpQueryNext]_vars

(***************************************************************************)
(* Properties of the networking-log replay                                 *)
(***************************************************************************)
TypesAfterReplay == networkingConfigInterfaceTypes(config)

\* C1 (as claimed): after replay every index some interface is bridge-mapped
\* to is classified Bridged, whatever its answer table says
C1_BridgeOverridesAnswer ==
    netPc = "done" =>
        \A v \in Range(config.bridgeMapping) : TypesAfterReplay[v] = NetworkingTypeBridged

\* C1 (amended): after replay an index with an answer table has the
\* classification of its answer table, also when it is bridge-mapped or has a
\* default; an index without answer table that is bridge-mapped is Bridged,
\* also when its default says otherwise; every other index has its default.
C1_AnswerOverridesBridge ==
    netPc = "done" =>
        /\ DOMAIN TypesAfterReplay =
              {0, 1, 8} \cup Range(config.bridgeMapping) \cup DOMAIN config.answer
        /\ \A v \in DOMAIN TypesAfterReplay :
              IF v \in DOMAIN config.answer
              THEN TypesAfterReplay[v] = AnswerType(config.answer[v])
              ELSE IF v \in Range(config.bridgeMapping)
              THEN TypesAfterReplay[v] = NetworkingTypeBridged
              ELSE TypesAfterReplay[v] =
                      (CASE v = 0 -> NetworkingTypeBridged
                         [] v = 1 -> NetworkingTypeHostonly
                         [] v = 8 -> NetworkingTypeNat)

\* a replay ended with an index that is bridge-mapped, is Hostonly by default
\* and has an answer table that classifies it as Nat or Hostonly
C1_Witness ==
    /\ netPc = "done"
    /\ \E v \in Range(config.bridgeMapping) \cap DOMAIN config.answer :
          /\ v = 1
          /\ AnswerType(config.answer[v]) # NetworkingTypeBridged

\* the row is one token VERSION=<major>,<minor> with major 1 and minor 0
DenotesVersionOne(row) ==
    /\ Len(row) = 1
    /\ LET tok == row[1]
           p == Len(tVERSION) + 1
       IN  /\ Len(tok) > p
           /\ SubSeq(tok, 1, p) = tVERSION \o <<"=">>
           /\ \E c \in (p + 2)..(Len(tok) - 1) :
                 /\ tok[c] = ","
                 /\ \A i \in (p + 1)..Len(tok) : i # c => IsDigit(tok[i])
                 /\ DigitsValue(SubSeq(tok, p + 1, c - 1)) = 1
                 /\ DigitsValue(SubSeq(tok, c + 1, Len(tok))) = 0

C3_MalformedRowsSkipped ==
    /\ netPc # "crashed"
    /\ Len(netRows) =
          Len(netCmds) + Cardinality({i \in DOMAIN netLog :
                            netLog[i].msg \in {"invalid command", "unable to parse command"}})

\* the table key a command names; the NAT-prefix commands name none
KeyedTypes ==
    {"answer", "remove_answer", "add_nat_portfwd", "remove_nat_portfwd",
     "add_dhcp_mac_to_ip", "remove_dhcp_mac_to_ip",
     "add_bridge_mapping", "remove_bridge_mapping"}
AddTypes == {"answer", "add_nat_portfwd", "add_dhcp_mac_to_ip", "add_bridge_mapping"}
CmdKey(e) ==
    CASE e.type \in {"answer", "remove_answer"} ->
            [table |-> "answer", net |-> networkingVNET_Number(e.vnet),
             key |-> networkingVNET_Option(e.vnet)]
      [] e.type \in {"add_nat_portfwd", "remove_nat_portfwd"} ->
            [table |-> "natPortFwd", net |-> e.vnet, key |-> ProtoPort(e.protocol, e.port)]
      [] e.type \in {"add_dhcp_mac_to_ip", "remove_dhcp_mac_to_ip"} ->
            [table |-> "dhcpMacToIp", net |-> e.vnet, key |-> MACString(e.mac)]
      [] e.type \in {"add_bridge_mapping", "remove_bridge_mapping"} ->
            [table |-> "bridgeMapping", net |-> 0, key |-> e.intf]
\* the value an add command assigns to its key
CmdValue(e) ==
    CASE e.type = "answer" -> e.value
      [] e.type = "add_nat_portfwd" -> Target(e.targetHost, e.targetPort)
      [] e.type = "add_dhcp_mac_to_ip" -> e.ip
      [] e.type = "add_bridge_mapping" -> e.vnet
\* the keys a config holds
ConfigKeys(c) ==
    {[table |-> "answer", net |-> n, key |-> k] :
        <<n, k>> \in UNION {{<<m, j>> : j \in DOMAIN c.answer[m]} : m \in DOMAIN c.answer}}
    \cup {[table |-> "natPortFwd", net |-> n, key |-> k] :
        <<n, k>> \in UNION {{<<m, j>> : j \in DOMAIN c.natPortFwd[m]} : m \in DOMAIN c.natPortFwd}}
    \cup {[table |-> "dhcpMacToIp", net |-> n, key |-> k] :
        <<n, k>> \in UNION {{<<m, j>> : j \in DOMAIN c.dhcpMacToIp[m]} : m \in DOMAIN c.dhcpMacToIp}}
    \cup {[table |-> "bridgeMapping", net |-> 0, key |-> k] : k \in DOMAIN c.bridgeMapping}
ConfigValue(c, k) ==
    CASE k.table = "answer" -> c.answer[k.net][k.key]
      [] k.table = "natPortFwd" -> c.natPortFwd[k.net][k.key]
      [] k.table = "dhcpMacToIp" -> c.dhcpMacToIp[k.net][k.key]
      [] k.table = "bridgeMapping" -> c.bridgeMapping[k.key]
\* the index of the last command that names key k, 0 when there is none
LastNaming(cmds, k) ==
    LET S == {i \in DOMAIN cmds : cmds[i].type \in KeyedTypes /\ CmdKey(cmds[i]) = k}
    IN  IF S = {} THEN 0 ELSE CHOOSE i \in S : \A j \in S : j <= i

\* C4: at every point of the replay, for every table key, the config holds
\* the value of the last add command for that key when the last command that
\* names the key is an add, and holds no entry for the key when that command
\* is a remove or when no command names the key.
C4_LastCommandWins ==
    LET named == {CmdKey(netCmds[i]) : i \in {j \in DOMAIN netCmds : netCmds[j].type \in KeyedTypes}}
    IN  /\ \A k \in named :
              LET last == netCmds[LastNaming(netCmds, k)]
              IN  IF last.type \in AddTypes
                  THEN k \in ConfigKeys(config) /\ ConfigValue(config, k) = CmdValue(last)
                  ELSE k \notin ConfigKeys(config)
        /\ ConfigKeys(config) \subseteq named

\* a replay ended in which a key was added twice with different values, or
\* added and then removed
C4_Witness ==
    /\ netPc = "done"
    /\ \E i, j \in DOMAIN netCmds :
          /\ i < j
          /\ netCmds[i].type = "add_nat_portfwd"
          /\ netCmds[j].type \in KeyedTypes
          /\ CmdKey(netCmds[i]) = CmdKey(netCmds[j])
          /\ \/ netCmds[j].type = "remove_nat_portfwd"
             \/ /\ netCmds[j].type = "add_nat_portfwd"
                /\ CmdValue(netCmds[j]) # CmdValue(netCmds[i])



(***************************************************************************)
(* Properties of the NetworkNameMapper implementations                     *)
(***************************************************************************)
TypeName(t) ==
    CASE t = NetworkingTypeHostonly -> tHostonly
      [] t = NetworkingTypeNat -> tNat
      [] t = NetworkingTypeBridged -> tBridged

\* the rows of the network map named n, and those with device d, ignoring case
RowsNamed(n) == {i \in DOMAIN nmResult : EqualFold(MapGet(nmResult[i], tName), n)}
RowsWithDevice(d) == {i \in DOMAIN nmResult : EqualFold(MapGet(nmResult[i], tDevice), d)}

\* NameIntoDevices(n) returned the devices of all networks named n ignoring
\* case, and an error with an empty list when there is none
NameIntoDevicesReturnsAll ==
    nid.called =>
        /\ nid.err <=> nid.devices = <<>>
        /\ mapper = "NetworkingConfig" =>
              /\ Range(nid.devices) =
                    {NetworkingInterfacePrefix \o Itoa(v) :
                        v \in {w \in DOMAIN TypesAfterReplay :
                                  EqualFold(TypeName(TypesAfterReplay[w]), nid.name)}}
              /\ \A i, j \in DOMAIN nid.devices : i # j => nid.devices[i] # nid.devices[j]
        /\ mapper = "NetworkMap" =>
              /\ Len(nid.devices) = Cardinality(RowsNamed(nid.name))
              /\ \A i \in RowsNamed(nid.name) :
                    nid.devices[Cardinality({j \in RowsNamed(nid.name) : j <= i})] =
                        MapGet(nmResult[i], tDevice)

\* C10 (as claimed): for both models NameIntoDevices(n) returns the devices
\* of all networks named n, and DeviceIntoName of every device it returned
\* gives a name equal to n ignoring case
C10_RoundTripBothModels ==
    /\ NameIntoDevicesReturnsAll
    /\ din.called /\ din.device \in Range(nid.devices) =>
          ~din.err /\ EqualFold(din.name, nid.name)

\* C10 (amended): NameIntoDevices(n) returns the devices of all networks
\* named n; for the networking-log model DeviceIntoName of every device it
\* returned gives a name equal to n ignoring case; for the network map
\* DeviceIntoName(d) gives the name of the first row whose device equals d
\* ignoring case, which equals n ignoring case when every row with that
\* device is named n.
C10_RoundTripUpToSharedDevices ==
    /\ NameIntoDevicesReturnsAll
    /\ din.called /\ din.device \in Range(nid.devices) =>
          /\ ~din.err
          /\ mapper = "NetworkingConfig" => EqualFold(din.name, nid.name)
          /\ mapper = "NetworkMap" =>
                /\ \E i \in RowsWithDevice(din.device) :
                      /\ \A j \in RowsWithDevice(din.device) : i <= j
                      /\ din.name = MapGet(nmResult[i], tName)
                /\ RowsWithDevice(din.device) \subseteq RowsNamed(nid.name)
                      => EqualFold(din.name, nid.name)

\* a network map with two networks whose names differ only in case was asked
\* for that name, and one of the two devices returned was looked up
C10_Witness ==
    /\ mapper = "NetworkMap"
    /\ Len(nid.devices) = 2
    /\ nid.name # MapGet(nmResult[1], tName)
    /\ din.called
    /\ din.device \in Range(nid.devices)
    /\ EqualFold(din.name, nid.name)

(***************************************************************************)
(* Properties of the DHCP configuration.                                   *)
(***************************************************************************)
\* the scopes from the root down to node n of the parsed tree
RECURSIVE ScopePath(_)
ScopePath(n) ==
    IF dhTree[n].parent = 0 THEN <<n>>
    ELSE Append(ScopePath(dhTree[n].parent), n)

ScalarTypes ==
    {"pParameterOption", "pParameterGrant", "pParameterBoolean",
     "pParameterExpression", "pParameterOther"}
ParameterCategory(p) ==
    IF p.type \in ScalarTypes THEN "scalar"
    ELSE IF p.type = "pParameterClientMatch" THEN "hostid"
    ELSE "address"
AssignKey(p) ==
    CASE p.type = "pParameterOption" -> p.name
      [] p.type = "pParameterGrant" -> p.attribute
      [] p.type \in {"pParameterBoolean", "pParameterExpression", "pParameterOther"} -> p.parameter
AssignValue(p) ==
    CASE p.type = "pParameterOption" -> p.value
      [] p.type = "pParameterGrant" ->
            (IF p.verb = kwAllow THEN ALLOW ELSE IF p.verb = kwDeny THEN DENY ELSE IGNORE)
      [] p.type = "pParameterBoolean" -> p.truancy
      [] p.type = "pParameterExpression" -> p.expression
      [] p.type = "pParameterOther" -> p.value
ScalarMap(decl, type) ==
    CASE type = "pParameterOption" -> decl.options
      [] type = "pParameterGrant" -> decl.grants
      [] type = "pParameterBoolean" -> decl.attributes
      [] type = "pParameterExpression" -> decl.expressions
      [] type = "pParameterOther" -> decl.parameters

Assigns(p, type, key) == p.type = type /\ AssignKey(p) = key
ScopeAssigns(n, type, key) ==
    \E j \in DOMAIN dhGlobal[n].parameters : Assigns(dhGlobal[n].parameters[j], type, key)
\* the value of the last assignment to key in scope n
LastAssigned(n, type, key) ==
    LET ps == dhGlobal[n].parameters
        j == CHOOSE x \in DOMAIN ps :
                /\ Assigns(ps[x], type, key)
                /\ \A y \in DOMAIN ps : y > x => ~Assigns(ps[y], type, key)
    IN  AssignValue(ps[j])
\* the deepest scope of the path that assigns key
DeepestAssigning(path, type, key) ==
    path[CHOOSE i \in DOMAIN path :
            /\ ScopeAssigns(path[i], type, key)
            /\ \A l \in DOMAIN path : l > i => ~ScopeAssigns(path[l], type, key)]
KeysOnPath(path, type) ==
    UNION {{AssignKey(dhGlobal[path[i]].parameters[j]) :
                j \in {x \in DOMAIN dhGlobal[path[i]].parameters :
                         dhGlobal[path[i]].parameters[x].type = type}} :
           i \in DOMAIN path}
RECURSIVE Accumulated(_, _)
Accumulated(path, category) ==
    IF path = <<>> THEN <<>>
    ELSE SelectSeq(dhGlobal[Head(path)].parameters,
                   LAMBDA p : ParameterCategory(p) = category)
            \o Accumulated(Tail(path), category)

\* C5: in every resolved declaration each option, grant, boolean attribute,
\* plain parameter and expression key holds the value assigned last in the
\* deepest scope of the root-to-node path that assigns the key, and the
\* address-category parameters and the host-identifier matches of all the
\* scopes of the path appear, in root-to-node order.
C5_DeepestScopeWins ==
    dhPc = "done" =>
        \A k \in DOMAIN dhResult :
            LET decl == dhResult[k]
                path == ScopePath(decl.composites[1])
            IN  /\ \A type \in ScalarTypes :
                     /\ DOMAIN ScalarMap(decl, type) = KeysOnPath(path, type)
                     /\ \A key \in KeysOnPath(path, type) :
                          ScalarMap(decl, type)[key] =
                              LastAssigned(DeepestAssigning(path, type, key), type, key)
                /\ decl.address = Accumulated(path, "address")
                /\ decl.hostid = Accumulated(path, "hostid")

optA == <<"a">>
parP == <<"p">>
\* a host under the root: both assign option a, to different values; only
\* the root assigns p; both give an address and a host-identifier match
C5_Witness ==
    /\ dhPc = "done"
    /\ \E k \in DOMAIN dhResult :
         LET decl == dhResult[k]
             node == decl.composites[1]
         IN  /\ dhTree[node].parent = 1
             /\ ScopeAssigns(1, "pParameterOption", optA)
             /\ ScopeAssigns(node, "pParameterOption", optA)
             /\ LastAssigned(1, "pParameterOption", optA)
                    # LastAssigned(node, "pParameterOption", optA)
             /\ decl.options[optA] = LastAssigned(node, "pParameterOption", optA)
             /\ ScopeAssigns(1, "pParameterOther", parP)
             /\ ~ScopeAssigns(node, "pParameterOther", parP)
             /\ parP \in DOMAIN decl.parameters
             /\ Len(decl.address) = 2
             /\ Len(decl.hostid) = 2
             /\ decl.hostid[1] # decl.hostid[2]

\* node a is node d or one of its ancestors in the parsed tree
RECURSIVE IsAncestorOrSelf(_, _)
IsAncestorOrSelf(a, d) ==
    \/ a = d
    \/ dhTree[d].parent # 0 /\ IsAncestorOrSelf(a, dhTree[d].parent)
\* the node of the k-th resolved declaration
ResultNode(k) == dhResult[k].composites[1]
ResultPos(n) == CHOOSE k \in DOMAIN dhResult : ResultNode(k) = n

\* C6: ReadDhcpConfiguration returns one resolved declaration per node of
\* the parsed tree, a node before its children and the subtree of a child
\* before the next child in source order, the Global root first; an empty
\* input gives the Global declaration alone.
C6_OnePerNodeInPreOrder ==
    dhPc = "done" =>
        /\ Len(dhResult) = Len(dhTree)
        /\ \A n \in DOMAIN dhTree : \E k \in DOMAIN dhResult : ResultNode(k) = n
        /\ ResultNode(1) = 1
        /\ dhResult[1].id = <<[type |-> "pDeclarationGlobal"]>>
        /\ \A n \in DOMAIN dhTree :
             /\ dhResult[ResultPos(n)].id[1] = dhGlobal[n].id
             /\ dhTree[n].parent # 0 => ResultPos(dhTree[n].parent) < ResultPos(n)
             /\ \A i, j \in DOMAIN dhTree[n].groups :
                  i < j => \A d \in DOMAIN dhTree :
                              IsAncestorOrSelf(dhTree[n].groups[i], d)
                                  => ResultPos(d) < ResultPos(dhTree[n].groups[j])
        /\ dhInput = <<>> => Len(dhResult) = 1

\* a scope with two child scopes, itself inside the root
C6_Witness ==
    /\ dhPc = "done"
    /\ Len(dhResult) >= 4
    /\ \E n \in DOMAIN dhTree :
         /\ dhTree[n].parent # 0
         /\ Len(dhTree[n].groups) >= 2

SubnetTypes == {"pDeclarationSubnet4", "pDeclarationSubnet6"}
\* the positions of the resolved declarations a query is about
SubnetsContaining(address) ==
    {k \in DOMAIN dhResult :
        /\ dhResult[k].id[1].type \in SubnetTypes
        /\ IPNetContains(dhResult[k].id[1], address)}
HostsNamed(host) ==
    {k \in DOMAIN dhResult :
        /\ dhResult[k].id[1].type = "pDeclarationHost"
        /\ ToLower(dhResult[k].id[1].name) = ToLower(host)}
QueryMatches ==
    IF dhQuery.op = "SubnetByAddress" THEN SubnetsContaining(dhQuery.arg)
    ELSE HostsNamed(dhQuery.arg)

\* C7: SubnetByAddress and HostByName return a declaration iff exactly one
\* resolved declaration matches, and then that one; with no match or with
\* several they return an error and no declaration.
C7_ExactlyOneMatch ==
    dhQuery.op \in {"SubnetByAddress", "HostByName"} =>
        /\ dhQuery.ok <=> Cardinality(QueryMatches) = 1
        /\ dhQuery.ok => \E k \in QueryMatches : dhQuery.entry = dhResult[k]
        /\ ~dhQuery.ok => dhQuery.entry = EmptyDeclaration

\* a lookup that succeeds among several subnets
C7_Witness ==
    /\ dhQuery.op = "SubnetByAddress"
    /\ dhQuery.ok
    /\ Cardinality({k \in DOMAIN dhResult : dhResult[k].id[1].type \in SubnetTypes}) >= 2

\* C8: when a closing brace arrives while the cursor is at the root,
\* parseDhcpConfig fails with the error that the global declaration cannot
\* be closed and returns an empty tree, whatever was parsed before.
C8_StrayCloseRefused ==
    [][(/\ dhPc = "parse"
        /\ dhNode = 1
        /\ dhInput' = Append(dhInput, chClose))
       => (/\ dhPc' = "failed"
           /\ dhErr' = ErrCloseGlobal
           /\ dhTree' = EmptyTree
           /\ dhResult' = <<>>)]_vars

\* a scope was opened and closed before the stray brace
C8_Witness ==
    /\ dhPc = "failed"
    /\ dhErr = ErrCloseGlobal
    /\ Len(dhInput) >= 3
    /\ dhInput[Len(dhInput)] = chClose
    /\ dhTree = EmptyTree

\* C9 (as stated): once the parser has stopped, tokens still pending mean
\* that the parse was aborted with an error, at a closing brace and at the
\* end of the input alike.
C9_PendingTokensAbortTheParse ==
    (dhPc # "parse" /\ dhTokens # <<>>) => dhErr \in {ErrCloseGlobal, ErrUnterminated}

(***************************************************************************)
(* Properties of single commands of the replay                             *)
(***************************************************************************)
\* the answer keys (VNET_<n>_<option>) the commands before position i added
AnswersAddedBefore(i) ==
    {netCmds[j].vnet : j \in {k \in 1..(i - 1) : netCmds[k].type = "answer"}}

\* the log holds the record of the failed removal that command e asked for
FailedRemovalLogged(e) ==
    \E k \in DOMAIN netLog :
        /\ netLog[k].msg = "unable to remove answer"
        /\ netLog[k].entry = e

\* C14: a remove_answer for a key no earlier command added, whether or not
\* its network already has an answer table, raises no error and no panic and
\* leaves a log record of the failed removal.
C14_MissingKeyRemovalLogged ==
    \A i \in DOMAIN netCmds :
        (netCmds[i].type = "remove_answer" /\ netCmds[i].vnet \notin AnswersAddedBefore(i))
            => (FailedRemovalLogged(netCmds[i]) /\ netPc # "crashed" /\ ~netErr)

(***************************************************************************)
(* Replay of a networking log of NAT prefix commands                       *)
(***************************************************************************)
NatPrefixRowPool ==
    { \* add_nat_prefix 2 /24
      <<<<"a", "d", "d", "_", "n", "a", "t", "_", "p", "r", "e", "f", "i", "x">>, <<"2">>, <<"/", "2", "4">>>>,
      \* add_nat_prefix 2 /16
      <<<<"a", "d", "d", "_", "n", "a", "t", "_", "p", "r", "e", "f", "i", "x">>, <<"2">>, <<"/", "1", "6">>>>,
      \* remove_nat_prefix 2 /24
      <<<<"r", "e", "m", "o", "v", "e", "_", "n", "a", "t", "_", "p", "r", "e", "f", "i", "x">>, <<"2">>, <<"/", "2", "4">>>>,
      \* remove_nat_prefix 3 /24
      <<<<"r", "e", "m", "o", "v", "e", "_", "n", "a", "t", "_", "p", "r", "e", "f", "i", "x">>, <<"3">>, <<"/", "2", "4">>>>}

NetReplayPrefixRow == NetReplayUpTo(NatPrefixRowPool, MaxPrefixRows)

NatPrefixNext == NetReadVersion \/ NetReplayPrefixRow \/ NetClose
SpecNatPrefix == NetworkingInit /\ [][NatPrefixNext]_vars

\* the ordered prefix list of network v, empty when v has none
PrefixList(c, v) == IF v \in DOMAIN c.natPrefix THEN c.natPrefix[v] ELSE <<>>

\* seq without its element at position i
WithoutAt(seq, i) == [j \in 1..(Len(seq) - 1) |-> IF j < i THEN seq[j] ELSE seq[j + 1]]

\* C15: add_nat_prefix appends the prefix to the end of the network's list
\* even when the list holds it already; remove_nat_prefix takes out exactly
\* the first occurrence, keeps every other element in its order, and changes
\* nothing when the prefix is absent. No other network's list changes.
C15_NatPrefixAppendAndRemoveFirst ==
    [][netCmds' # netCmds =>
        LET e == netCmds'[Len(netCmds')]
            before == PrefixList(config, e.vnet)
            after == PrefixList(config', e.vnet)
        IN  /\ e.type = "add_nat_prefix" => after = before \o <<e.prefix>>
            /\ e.type = "remove_nat_prefix" =>
                  IF \A i \in DOMAIN before : before[i] # e.prefix
                  THEN config' = config
                  ELSE \E i \in DOMAIN before :
                          /\ before[i] = e.prefix
                          /\ \A j \in 1..(i - 1) : before[j] # e.prefix
                          /\ after = WithoutAt(before, i)
            /\ e.type \in {"add_nat_prefix", "remove_nat_prefix"} =>
                  \A v \in (DOMAIN config.natPrefix) \ {e.vnet} :
                      PrefixList(config', v) = PrefixList(config, v)]_vars

\* /24, /16, /24 were added to network 1 and the removal of /24 left /16, /24
C15_Witness ==
    /\ Len(netCmds) = 4
    /\ [i \in 1..4 |-> netCmds[i].type] =
          <<"add_nat_prefix", "add_nat_prefix", "add_nat_prefix", "remove_nat_prefix">>
    /\ [i \in 1..4 |-> netCmds[i].prefix] = <<24, 16, 24, 24>>
    /\ PrefixList(config, 1) = <<16, 24>>

\* the rows of the log, of the given verb, that were parsed and applied
AppliedRows(verb) ==
    {netRows[i] : i \in {k \in DOMAIN netRows :
                            /\ netRows[k][1] = verb
                            /\ parseNetworkingConfig(netRows[k]).status = "ok"}}

\* the network index as it is written in a row of the log: the <n> of the
\* VNET_<n>_ key, the last argument of add_bridge_mapping, else the first
LoggedIndex(row) ==
    CASE row[1] \in {cmdAnswer, cmdRemoveAnswer} -> DigitsValue(SplitN(row[2], "_", 3)[2])
      [] row[1] = cmdAddBridgeMapping -> DigitsValue(row[3])
      [] OTHER -> DigitsValue(row[2])

StoredIndices(verb) == {LoggedIndex(row) - 1 : row \in AppliedRows(verb)}

\* C16: every table of the NetworkingConfig is keyed by the index written in
\* the log minus one: the answer tables (through the VNET_<n>_ key), the NAT
\* port-forward tables, the DHCP MAC-to-IP tables and the NAT prefix lists
\* exist exactly for the decremented indices of the applied commands, and an
\* interface is bridge-mapped only to such an index.
C16_StoredIndexIsLoggedIndexMinusOne ==
    /\ DOMAIN config.answer = StoredIndices(cmdAnswer)
    /\ DOMAIN config.natPortFwd = StoredIndices(cmdAddNatPortFwd)
    /\ DOMAIN config.dhcpMacToIp = StoredIndices(cmdAddDhcpMacToIp)
    /\ DOMAIN config.natPrefix = StoredIndices(cmdAddNatPrefix)
    /\ Range(config.bridgeMapping) \subseteq StoredIndices(cmdAddBridgeMapping)

(***************************************************************************)
(* Properties of the replayed NetworkingConfig                             *)
(***************************************************************************)
\* row i of the log was parsed and applied
Applied(i) == parseNetworkingConfig(netRows[i]).status = "ok"

\* no applied row after row i adds or removes the bridge mapping of the
\* interface that row i names
BridgeMappingStands(i) ==
    \A k \in (i + 1)..Len(netRows) :
        ~(/\ Applied(k)
          /\ netRows[k][1] \in {cmdAddBridgeMapping, cmdRemoveBridgeMapping}
          /\ netRows[k][2] = netRows[i][2])

\* no applied row after row i adds or removes a port forward of the same
\* network, protocol and port
PortFwdStands(i) ==
    \A k \in (i + 1)..Len(netRows) :
        ~(/\ Applied(k)
          /\ netRows[k][1] \in {cmdAddNatPortFwd, cmdRemoveNatPortFwd}
          /\ netRows[k][2] = netRows[i][2]
          /\ ToLower(netRows[k][3]) = ToLower(netRows[i][3])
          /\ netRows[k][4] = netRows[i][4])

AnswersYes(v, key) == key \in DOMAIN config.answer[v] /\ config.answer[v][key] = tYes

\* C18: after replay, an index with an answer table and no bridge mapping is
\* Nat when its table has VIRTUAL_ADAPTER=yes and NAT=yes, Hostonly when it
\* has VIRTUAL_ADAPTER=yes without NAT=yes, also when HOSTONLY_SUBNET or
\* HOSTONLY_NETMASK is missing, which is logged, and Bridged when it has no
\* VIRTUAL_ADAPTER=yes; of the indices with neither an answer table nor a
\* bridge mapping, 0 is Bridged, 1 is Hostonly, 8 is Nat.
C18_ClassificationByAnswerTable ==
    netPc = "done" =>
        /\ \A v \in (DOMAIN config.answer) \ Range(config.bridgeMapping) :
              /\ v \in DOMAIN TypesAfterReplay
              /\ TypesAfterReplay[v] =
                    (IF AnswersYes(v, tVIRTUAL_ADAPTER)
                     THEN (IF AnswersYes(v, tNAT) THEN NetworkingTypeNat
                           ELSE NetworkingTypeHostonly)
                     ELSE NetworkingTypeBridged)
              /\ (AnswersYes(v, tVIRTUAL_ADAPTER)
                    /\ {tHOSTONLY_SUBNET, tHOSTONLY_NETMASK} \ DOMAIN config.answer[v] # {})
                    => v \in networkingConfigInterfaceTypesLog(config)
        /\ \A v \in {0, 1, 8} \ ((DOMAIN config.answer) \cup Range(config.bridgeMapping)) :
              /\ v \in DOMAIN TypesAfterReplay
              /\ (v = 0 => TypesAfterReplay[v] = NetworkingTypeBridged)
              /\ (v = 1 => TypesAfterReplay[v] = NetworkingTypeHostonly)
              /\ (v = 8 => TypesAfterReplay[v] = NetworkingTypeNat)

\* index 1 has a table with NAT=yes only, so it is Bridged and no longer the
\* Hostonly of its default, while 0 and 8 keep their defaults
C18_Witness ==
    /\ netPc = "done"
    /\ 1 \in DOMAIN config.answer
    /\ AnswersYes(1, tNAT)
    /\ ~AnswersYes(1, tVIRTUAL_ADAPTER)
    /\ config.bridgeMapping = EmptyMap
    /\ TypesAfterReplay[1] = NetworkingTypeBridged
    /\ TypesAfterReplay[0] = NetworkingTypeBridged
    /\ TypesAfterReplay[8] = NetworkingTypeNat

\* the network indices some table of the NetworkingConfig mentions
MentionedIndices ==
    (DOMAIN config.answer) \cup (DOMAIN config.natPortFwd) \cup (DOMAIN config.dhcpMacToIp)
        \cup (DOMAIN config.natPrefix) \cup Range(config.bridgeMapping)

\* C19: after replay every network index that the answer, NAT port-forward,
\* DHCP MAC-to-IP, NAT prefix or bridge-mapping table mentions is classified
\* as one of Bridged, Hostonly and Nat, and DeviceIntoName succeeds for the
\* vmnet device of that index.
C19_EveryMentionedIndexClassified ==
    netPc = "done" =>
        \A v \in MentionedIndices :
            /\ v \in DOMAIN TypesAfterReplay
            /\ TypesAfterReplay[v] \in
                  {NetworkingTypeBridged, NetworkingTypeHostonly, NetworkingTypeNat}
            /\ ~NetworkingConfig_DeviceIntoName(config, NetworkingInterfacePrefix \o Itoa(v)).err

(***************************************************************************)
(* Isolation of the scopes of the DHCP configuration                       *)
(***************************************************************************)
\* scope s assigns value to key by a parameter of the given type
ValueDeclaredIn(s, type, key, value) ==
    \E j \in DOMAIN dhGlobal[s].parameters :
        /\ Assigns(dhGlobal[s].parameters[j], type, key)
        /\ AssignValue(dhGlobal[s].parameters[j]) = value

\* the node of a declaration and its ancestors
ScopesAbove(n) == {s \in DOMAIN dhGlobal : IsAncestorOrSelf(s, n)}

\* C20: every option, grant, attribute, parameter and expression value, and
\* every address and host-identifier entry, of a resolved declaration is
\* declared in the node of the declaration or in one of its ancestors: what
\* only a sibling or a descendant declares is in no such declaration.
C20_OnlyOwnAndAncestorScopes ==
    dhPc = "done" =>
        \A k \in DOMAIN dhResult :
            LET decl == dhResult[k]
                n == ResultNode(k)
            IN  /\ \A type \in ScalarTypes :
                      \A key \in DOMAIN ScalarMap(decl, type) :
                          \E s \in ScopesAbove(n) :
                              ValueDeclaredIn(s, type, key, ScalarMap(decl, type)[key])
                /\ \A i \in DOMAIN decl.address :
                      \E s \in ScopesAbove(n) : decl.address[i] \in Range(dhGlobal[s].parameters)
                /\ \A i \in DOMAIN decl.hostid :
                      \E s \in ScopesAbove(n) : decl.hostid[i] \in Range(dhGlobal[s].parameters)

\* a declaration below the root and a scope that is neither above nor below
\* its node; that scope assigns a key the declaration does not have
C20_Witness ==
    /\ dhPc = "done"
    /\ \E k \in DOMAIN dhResult : \E m \in DOMAIN dhGlobal :
          LET n == ResultNode(k)
          IN  /\ dhTree[n].parent # 0
              /\ ~IsAncestorOrSelf(m, n)
              /\ ~IsAncestorOrSelf(n, m)
              /\ \E j \in DOMAIN dhGlobal[m].parameters :
                    LET p == dhGlobal[m].parameters[j]
                    IN  /\ p.type \in ScalarTypes
                        /\ AssignKey(p) \notin DOMAIN ScalarMap(dhResult[k], p.type)

(***************************************************************************)
(* Properties of StepShutdown                                              *)
(***************************************************************************)
\* C13: Run first attempts a graceful shutdown, and when that attempt has
\* failed, the machine still running when the shutdown timeout expires, Run
\* has called driver.Stop by the time it returns.
C13_FailedGracefulShutdownIsForced ==
    (ssPc = "returned" /\ ssError = ErrSsTimeout)
        => /\ ssCalls # <<>>
           /\ ssCalls[1] = "comm.Start"
           /\ \E i \in DOMAIN ssCalls : ssCalls[i] = "driver.Stop"

(***************************************************************************)
(* Properties of the lease readers                                         *)
(***************************************************************************)
\* C11: readDhcpdLeaseEntry and readAppleDhcpdLeaseEntry return the nil
\* entry without error, on which the file-level reader returns, only when
\* the bytes still to be read hold no further '{': while a block is left a
\* non-nil entry is returned and the reader goes on.
C11_DoneOnlyWithoutFurtherBlock ==
    [][(lsPc = "read" /\ lsPc' = "returned") => "{" \notin Range(lsIn)]_vars

\* the last block of the bytes has no closing brace
OpenBlockAtEnd(s) ==
    \E i \in DOMAIN s : s[i] = "{" /\ \A j \in (i + 1)..Len(s) : s[j] # "}"

\* C12: when the file-level reader has returned, its error is non-nil iff
\* at least one entry failed, and a block that is structurally incomplete,
\* its closing brace missing, has given a partial entry paired with an error
\* and is among the failed entries, not among the results and not dropped.
C12_IncompleteBlockReported ==
    lsPc = "returned" =>
        /\ lsErr <=> (lsErrorList # <<>>)
        /\ OpenBlockAtEnd(uncomment(lsFile)) => lsErrorList # <<>>

ParameterNext == CallParseParameter \/ ReturnParseParameter \/ CrashParseParameter
SpecParameter == DhcpInit /\ [][ParameterNext]_vars

(***************************************************************************)
(* C21: the range parameter takes an optional leading bootp marker and one *)
(* or two addresses: one address gives Range4 with min = max, two give     *)
(* Range4(min, max), none or more than two give an error, and the          *)
(* interpreter always returns.                                             *)
(***************************************************************************)
RangeCalled ==
    /\ callFn = "parseParameter"
    /\ callPc \in {"returned", "crashed"}
    /\ callArgs.name = kwRange
RangeAddresses(operand) ==
    IF operand # <<>> /\ ToLower(Head(operand)) = kwBootp THEN Tail(operand) ELSE operand
Range4(min, max) == ParseOk([type |-> "pParameterRange4", min |-> min, max |-> max])
RangeAsStated(addresses) ==
    /\ callPc = "returned"
    /\ Len(addresses) = 1 =>
         callResult = Range4(ParseIP(addresses[1]), ParseIP(addresses[1]))
    /\ Len(addresses) = 2 =>
         callResult = Range4(ParseIP(addresses[1]), ParseIP(addresses[2]))
    /\ Len(addresses) \notin {1, 2} => callResult.status = "error"
C21_RangeOneOrTwoAddresses ==
    RangeCalled => RangeAsStated(RangeAddresses(callArgs.operand))

(***************************************************************************)
(* C22: range6 addr/bits with 0 <= bits <= 128 gives Range6 whose min is   *)
(* addr with its low 128 - bits bits cleared and whose max is addr with    *)
(* those bits set.                                                         *)
(***************************************************************************)
Contains(s, c) == \E i \in DOMAIN s : s[i] = c
Range6CidrCalled ==
    /\ callFn = "parseParameter"
    /\ callPc \in {"returned", "crashed"}
    /\ callArgs.name = kwRange6
    /\ Len(callArgs.operand) = 1
    /\ Contains(callArgs.operand[1], "/")
HostBitsOf(i, bits) ==
    IF 8 * i <= bits THEN 0 ELSE IF 8 * i - bits >= 8 THEN 8 ELSE 8 * i - bits
LowBitsCleared(ip, bits) ==
    [i \in 1..16 |-> (ip[i] \div Pow2(HostBitsOf(i, bits))) * Pow2(HostBitsOf(i, bits))]
LowBitsSet(ip, bits) ==
    [i \in 1..16 |-> LowBitsCleared(ip, bits)[i] + Pow2(HostBitsOf(i, bits)) - 1]
Range6AsStated(cidr) ==
    (/\ AtoiOk(cidr[2])
     /\ Atoi(cidr[2]) \in 0..128
     /\ ParseIP(cidr[1]) # NoIP) =>
        /\ callPc = "returned"
        /\ callResult =
             ParseOk([type |-> "pParameterRange6",
                      min |-> LowBitsCleared(To16(ParseIP(cidr[1])), Atoi(cidr[2])),
                      max |-> LowBitsSet(To16(ParseIP(cidr[1])), Atoi(cidr[2]))])
C22_Range6CidrNetworkAndBroadcast ==
    Range6CidrCalled => Range6AsStated(SplitN(callArgs.operand[1], "/", 2))

TokenizeNext == CallTokenizeDhcpConfig \/ ReturnTokenizeDhcpConfig
SpecTokenize == DhcpInit /\ [][TokenizeNext]_vars

(***************************************************************************)
(* C23: tokenizeDhcpConfig sends, in input order, each quoted span inside  *)
(* one token with both quotes and with the whitespace and the braces and   *)
(* semicolons in it untouched, each brace and semicolon outside quotes as  *)
(* a token of its own after the pending word, no empty token, and no       *)
(* unquoted token with a space, tab, CR or LF in it.                       *)
(***************************************************************************)
TokenizerWhitespace == {" ", "\t", "\r", "\n"}
TokenizerSeparators == {"{", "}", ";"}
QuotesBefore(s, i) == Cardinality({j \in 1..(i - 1) : s[j] = "\""})
\* the byte at position i of s stands between an opening quote and the end
\* of its span
InsideQuotes(s, i) == s[i] # "\"" /\ QuotesBefore(s, i) % 2 = 1
RECURSIVE FlattenTokens(_)
FlattenTokens(tokens) ==
    IF tokens = <<>> THEN <<>> ELSE Head(tokens) \o FlattenTokens(Tail(tokens))
\* the input without the whitespace outside quotes
KeptBytes(in) ==
    LET kept == SelectSeq([i \in DOMAIN in |-> <<i, in[i]>>],
                          LAMBDA by : by[2] \notin TokenizerWhitespace \/ InsideQuotes(in, by[1]))
    IN  [i \in DOMAIN kept |-> kept[i][2]]
\* a quote opened in a token is closed in it, but for a span the input
\* leaves open, which ends the last token
QuotedSpansWhole(in, tokens) ==
    \A k \in DOMAIN tokens :
        \/ QuotesBefore(tokens[k], Len(tokens[k]) + 1) % 2 = 0
        \/ k = Len(tokens) /\ QuotesBefore(in, Len(in) + 1) % 2 = 1
\* whitespace, braces and semicolons of a token stand inside its quotes,
\* but for the brace or semicolon that is a token of its own
SeparatorsOwnTokens(tokens) ==
    \A k \in DOMAIN tokens : \A i \in DOMAIN tokens[k] :
        tokens[k][i] \in TokenizerWhitespace \cup TokenizerSeparators =>
            \/ InsideQuotes(tokens[k], i)
            \/ Len(tokens[k]) = 1 /\ tokens[k][1] \in TokenizerSeparators
TokensAsStated(in, tokens) ==
    /\ FlattenTokens(tokens) = KeptBytes(in)
    /\ QuotedSpansWhole(in, tokens)
    /\ SeparatorsOwnTokens(tokens)
    /\ \A k \in DOMAIN tokens : tokens[k] # <<>>
    /\ \A k \in DOMAIN tokens :
           (\A i \in DOMAIN tokens[k] : tokens[k][i] # "\"") =>
               \A i \in DOMAIN tokens[k] : tokens[k][i] \notin TokenizerWhitespace
C23_TokensOfTokenizeDhcpConfig ==
    (callFn = "tokenizeDhcpConfig" /\ callPc = "returned") =>
        TokensAsStated(callArgs, callResult)
\* the input "a b"{ gives the two tokens "a b" and {
C23_Witness ==
    /\ callFn = "tokenizeDhcpConfig"
    /\ callPc = "returned"
    /\ callArgs = <<"\"", " ", "\"", "{">>
    /\ callResult = <<<<"\"", " ", "\"">>, <<"{">>>>

UncommentNext == CallUncomment \/ ReturnUncomment
SpecUncomment == DhcpInit /\ [][UncommentNext]_vars

(***************************************************************************)
(* C24: the comment stripper removes every byte from a # up to the newline *)
(* that ends that line and passes every byte outside comments through      *)
(* unchanged and in order; as the claim has it the newline is removed      *)
(* too, as the stage is written the newline is passed through.             *)
(***************************************************************************)
BeforeHash(line) ==
    IF Contains(line, "#") THEN SubSeq(line, 1, FirstIndex(line, "#", 1) - 1) ELSE line
\* the lines of the input, each cut at its first #
CutLines(in) == [k \in DOMAIN Split(in, "\n") |-> BeforeHash(Split(in, "\n")[k])]
\* the lines put together again, a line with a comment having lost its newline
RECURSIVE JoinThroughNewline(_, _)
JoinThroughNewline(lines, cut) ==
    IF Len(lines) <= 1 THEN FlattenTokens(cut)
    ELSE Head(cut) \o (IF Contains(Head(lines), "#") THEN <<>> ELSE <<"\n">>)
         \o JoinThroughNewline(Tail(lines), Tail(cut))
UncommentCalled == callFn = "uncomment" /\ callPc = "returned"
PairNext == CallConsumeOpenClosePair \/ ReturnConsumeOpenClosePair
SpecPair == DhcpInit /\ [][PairNext]_vars

(***************************************************************************)
(* C25: consumeOpenClosePair returns the bytes before the first open       *)
(* delimiter; its output begins with the open delimiter, ends with the     *)
(* close delimiter and has no close delimiter before its end; the close    *)
(* delimiter is made up when the source ends without one; no byte after    *)
(* the close delimiter is taken from the source.                           *)
(***************************************************************************)
PairCalled == callFn = "consumeOpenClosePair" /\ callPc = "returned"
IsPrefixOf(p, s) == Len(p) <= Len(s) /\ SubSeq(s, 1, Len(p)) = p
\* the bytes of the source after the prefix and its open delimiter
AfterOpen(in, result) == SubSeq(in, Len(result) + 2, Len(in))
PairAsStated(in, result, out, left) ==
    /\ IsPrefixOf(result, in)
    /\ ~Contains(result, "{")
    /\ Len(result) < Len(in) => in[Len(result) + 1] = "{"
    /\ Len(out) >= 2
    /\ out[1] = "{"
    /\ out[Len(out)] = "}"
    /\ \A i \in 1..(Len(out) - 1) : out[i] # "}"
    /\ IF Contains(AfterOpen(in, result), "}")
       THEN result \o out \o left = in
       ELSE /\ out = <<"{">> \o AfterOpen(in, result) \o <<"}">>
            /\ left = <<>>
C25_OpenClosePairDelimited ==
    PairCalled => PairAsStated(callArgs, callResult.result, callResult.out, callResult.in)
\* a{b with no close delimiter gives the prefix a and the output {b}
C25_Witness ==
    /\ PairCalled
    /\ callArgs = <<"a", "{", "b">>
    /\ callResult.result = <<"a">>
    /\ callResult.out = <<"{", "b", "}">>
\* {a}b} leaves b} in the source
C25_WitnessRest ==
    /\ PairCalled
    /\ callArgs = <<"{", "}", "b", "}">>
    /\ callResult.in = <<"b", "}">>

\* the network map read from lines of any form
NetworkMapInit == NetInit /\ NetQueryInit /\ mapper = "NetworkMap" /\ NmInit /\ DhInit /\ SsInit /\ LsInit /\ CallInit /\ PlInit
NetworkMapNext == NmParseTokenLine \/ NmClose
SpecNetworkMap == NetworkMapInit /\ [][NetworkMapNext]_vars

(***************************************************************************)
(* C26: parseNetworkMapConfig accepts a line only when one token precedes  *)
(* its ".", two precede its "=" and three precede its newline or the end   *)
(* of the input; any other count at one of these makes the parse fail      *)
(* with an error and no rows.                                              *)
(***************************************************************************)
\* the lines the tokens received make up, without the lines of no token;
\* the last line is the one the end of the input terminates
NmLines == SelectSeq(Split(FlattenTokens(nmInput), tNL), LAMBDA line : line # <<>>)
NmWords(line) == SelectSeq(line, LAMBDA tk : tk \notin {tDot, tEq})
NmWordsBefore(line, i) == Len(NmWords(SubSeq(line, 1, i - 1)))
NmLineAsStated(line) ==
    /\ \A i \in DOMAIN line : line[i] = tDot => NmWordsBefore(line, i) = 1
    /\ \A i \in DOMAIN line : line[i] = tEq => NmWordsBefore(line, i) = 2
    /\ Len(NmWords(line)) = 3
NmReturned == mapper = "NetworkMap" /\ nmPc \in {"done", "failed"}
C26_StrictTokenCounts ==
    NmReturned =>
        /\ nmPc = "done" => \A k \in DOMAIN NmLines : NmLineAsStated(NmLines[k])
        /\ nmPc = "failed" => nmResult = <<>>

(***************************************************************************)
(* C27: ReadNetworkMap returns one row per distinct network key, in        *)
(* ascending order of the keys; a row holds, for each attribute assigned   *)
(* under the key, the unquoted value of the last assignment; a value that  *)
(* is not a quoted string makes the read fail.                             *)
(***************************************************************************)
\* the assignments of the input: the words of its lines of three words
NmAssignments == SelectSeq([k \in DOMAIN NmLines |-> NmWords(NmLines[k])],
                           LAMBDA words : Len(words) = 3)
NmKeys == {NmAssignments[k][1] : k \in DOMAIN NmAssignments}
NmAttributes(key) ==
    {NmAssignments[k][2] : k \in {j \in DOMAIN NmAssignments : NmAssignments[j][1] = key}}
NmLastAssignment(key, attribute) ==
    CHOOSE k \in DOMAIN NmAssignments :
        /\ NmAssignments[k][1] = key /\ NmAssignments[k][2] = attribute
        /\ \A j \in (k + 1)..Len(NmAssignments) :
               ~(NmAssignments[j][1] = key /\ NmAssignments[j][2] = attribute)
NmRow(key) ==
    [attribute \in NmAttributes(key) |->
        Unquote(NmAssignments[NmLastAssignment(key, attribute)][3])]
NmAscending(keys) == \A i \in DOMAIN keys : \A j \in DOMAIN keys :
                         i < j => StringLess(keys[i], keys[j])
NmAllQuoted == \A k \in DOMAIN NmAssignments : UnquoteOk(NmAssignments[k][3])
C27_RowsByKeyLastAssignment ==
    NmReturned =>
        /\ nmPc = "done" =>
             /\ NmAllQuoted
             /\ Len(nmResult) = Cardinality(NmKeys)
             /\ \E keys \in [1..Len(nmResult) -> NmKeys] :
                    /\ NmAscending(keys)
                    /\ \A i \in DOMAIN keys : nmResult[i] = NmRow(keys[i])
        /\ ~NmAllQuoted => nmPc = "failed" /\ nmResult = <<>>
\* network1 is assigned before network0, and network0.name is assigned twice
C27_Witness ==
    /\ NmReturned
    /\ nmPc = "done"
    /\ nmInput = <<nmSet1, nmSet0, nmSetAgain>>
    /\ Len(nmResult) = 2
    /\ nmResult[1][tName] = <<"c">>
    /\ nmResult[2][tName] = <<"b">>

\* the stages of a reader as goroutines, in every interleaving
PipelineNext ==
    \/ PlReadNetworkingConfig \/ PlReadDhcpConfiguration
    \/ PlConsumeFile \/ PlSend \/ PlInputClosed \/ PlCloseOut
    \/ PlReadVersion \/ PlFlatten \/ PlParseDhcpConfig
SpecPipeline == DhcpInit /\ [][PipelineNext]_vars

\* a stage closes its channel at most once, only after the channel before it
\* is closed (the file at its end, for consumeFile), and holds nothing to
\* send once it has closed
StageClosesProperly(i) ==
    /\ plStage[i].closes <= 1
    /\ plStage[i].closes > 0 =>
         /\ plStage[i].out = <<>>
         /\ IF i = 1 THEN plFile = <<>> ELSE plStage[i - 1].closes > 0
StagesCloseProperly == \A i \in 1..Len(plStage) : StageClosesProperly(i)
\* nothing is left in flight: what the consumer received is what the stages sent
Drained == \A i \in 1..Len(plStage) : plStage[i].closes = 1
\* the final consumer never stopped receiving before its channel was closed
ConsumerKeepsReceiving == ~plErr
\* C28: on every input on which the final consumer keeps receiving, each
\* stage closes its output channel exactly once, only after its input is
\* exhausted, and never sends after closing, and the Read* operation returns:
\* no goroutine of the pipeline takes the process down, and when no goroutine
\* can take a step the operation has returned with every channel closed.
C28_StagesCloseAndReadReturns ==
    (plPc # "new" /\ ConsumerKeepsReceiving) =>
        /\ StagesCloseProperly
        /\ plPc # "crashed"
        /\ ~(ENABLED PipelineNext) => (plPc = "returned" /\ Drained)

\* one stage run alone on a whole sequence of items: what it sends
RECURSIVE RunStage(_, _, _)
RunStage(stage, st, items) ==
    IF items = <<>> THEN StageClose(stage, st)
    ELSE StageStep(stage, st, Head(items)).out
             \o RunStage(stage, StageStep(stage, st, Head(items)).st, Tail(items))
\* the rows of a networking file, its stages run one after the other
PullRows(file) ==
    RunStage("splitNetworkingConfig", StageStart("splitNetworkingConfig"),
        RunStage("tokenizeNetworkingConfig", StageStart("tokenizeNetworkingConfig"), file))
PullVersion(rows) == IF rows = <<>> THEN NoRow ELSE Head(rows)
\* the entries of the rows up to the first row the parser panics on
RECURSIVE PullEntries(_)
PullEntries(rows) ==
    IF rows = <<>> \/ StagePanics("parseNetworkingConfig", Head(rows)) THEN <<>>
    ELSE parseNetworkingConfigRow(Head(rows)).out \o PullEntries(Tail(rows))
PullPanics(rows) ==
    \E k \in 1..Len(rows) : StagePanics("parseNetworkingConfig", rows[k])
\* the tokens of a DHCP configuration file, its stages run one after the other
PullTokens(file) ==
    RunStage("tokenizeDhcpConfig", StageStart("tokenizeDhcpConfig"),
        RunStage("uncomment", StageStart("uncomment"), file))
\* the tokens parseDhcpConfig takes: through the first one it fails on
RECURSIVE PullTaken(_, _)
PullTaken(p, tks) ==
    IF tks = <<>> THEN <<>>
    ELSE IF parseDhcpToken(p, Head(tks)).err # ErrNone THEN <<Head(tks)>>
    ELSE <<Head(tks)>> \o PullTaken(parseDhcpToken(p, Head(tks)), Tail(tks))
PullStart == [tree |-> EmptyTree, node |-> 1, tokens |-> <<>>, err |-> ErrNone]
\* the outcome of the single-threaded chain: what the consumer is given,
\* whether it fails, whether a stage panics, and the state of the parser
PullDelivered(reader, file) ==
    IF reader = "ReadDhcpConfiguration" THEN PullTaken(PullStart, PullTokens(file))
    ELSE IF ReadNetworkingConfig_VersionOk(PullVersion(PullRows(file)))
    THEN PullEntries(Tail(PullRows(file)))
    ELSE <<>>
PullErr(reader, file) ==
    IF reader = "ReadDhcpConfiguration"
    THEN parseDhcpTokens(PullStart, PullTaken(PullStart, PullTokens(file))).err # ErrNone
    ELSE ~ReadNetworkingConfig_VersionOk(PullVersion(PullRows(file)))
PullCrashes(reader, file) ==
    /\ reader = "ReadNetworkingConfig"
    /\ ReadNetworkingConfig_VersionOk(PullVersion(PullRows(file)))
    /\ PullPanics(Tail(PullRows(file)))
PullModel(reader, file) ==
    IF reader = "ReadDhcpConfiguration"
    THEN parseDhcpTokens(PullStart, PullTaken(PullStart, PullTokens(file)))
    ELSE <<>>
\* C29: in every interleaving of the stage goroutines, what the final
\* consumer has received is a prefix of what the single-threaded chain of the
\* same stages gives it, and when the reader returns it has received exactly
\* that, with the same error and the same parser state; the process goes
\* down only where the single-threaded chain panics, and then it cannot
\* return.
C29_SameAsSingleThreadedChain ==
    plPc # "new" =>
        /\ IsPrefixOf(plDelivered, PullDelivered(plReader, plInput))
        /\ plPc = "returned" =>
             /\ plDelivered = PullDelivered(plReader, plInput)
             /\ plErr = PullErr(plReader, plInput)
             /\ plMain = PullModel(plReader, plInput)
             /\ ~PullCrashes(plReader, plInput)
        /\ plPc = "crashed" => PullCrashes(plReader, plInput)
\* a read of a file with blank lines, a carriage return and an unknown
\* command has returned the one entry of its last row
C29_Witness ==
    /\ plPc = "returned"
    /\ plInput = fileUntidy
    /\ Len(plDelivered) = 1
    /\ ~plErr

\* a goroutine that was started and has not closed its channel
Unfinished(i) == plStage[i].started /\ plStage[i].closes = 0
\* C30: when a Read* operation has returned, with or without an error, and
\* no goroutine can take a step any more, no stage goroutine it started is
\* left blocked on a send: every one of them has closed its channel.
C30_NoStageLeftBlocked ==
    (plPc = "returned" /\ ~(ENABLED PipelineNext)) =>
        \A i \in 1..Len(plStage) : ~Unfinished(i)

\* one call of ConfigDeclaration.Hardware
HardwareNext == CallHardware \/ ReturnHardware \/ CrashHardware
SpecHardware == DhcpInit /\ [][HardwareNext]_vars

\* C31: Hardware returns the six octets of the hardware parameter when
\* exactly one is among the address entries of the declaration, fails when
\* and only when more than one is, and returns an error, without a panic,
\* when none is.
HardwareAsStated(address, r) ==
    /\ Len(HardwareParameters(address)) = 1 =>
         r.status = "ok" /\ r.res = HardwareParameters(address)[1].address
    /\ Len(HardwareParameters(address)) > 1 => r.status = "error"
    /\ Len(HardwareParameters(address)) = 0 => r.status = "error"
C31_HardwareByCount ==
    callFn = "Hardware" =>
        /\ callPc # "crashed"
        /\ callPc = "returned" => HardwareAsStated(callArgs, callResult)

\* the declarations are walked in the order their scopes were opened: the
\* k-th resolved declaration is that of node k
\* the identities on the way from a node up to the root, the node first
PathToRoot(n) == [i \in 1..Len(Hierarchy(dhGlobal, n)) |-> dhGlobal[Hierarchy(dhGlobal, n)[i]].id]
Depth(n) == Len(Hierarchy(dhGlobal, n)) - 1
\* C32 as stated: the identity list of every resolved declaration starts
\* with the identity of Global, ends with the identity of its own node, and
\* is one longer than the depth of the node.
C32_IdentityPathRootFirst ==
    dhPc = "done" =>
        \A k \in DOMAIN dhResult :
            /\ dhResult[k].id[1] = dhGlobal[1].id
            /\ dhResult[k].id[Len(dhResult[k].id)] = dhGlobal[k].id
            /\ Len(dhResult[k].id) = Depth(k) + 1
\* C32 amended: the identity list of every resolved declaration is the path
\* of identities from its own node up to the root: its first element is the
\* identity of the node, its last element is Global, and it is one longer
\* than the depth of the node.
C32_IdentityPathNodeFirst ==
    dhPc = "done" =>
        /\ DOMAIN dhResult = DOMAIN dhGlobal
        /\ \A k \in DOMAIN dhResult :
            /\ dhResult[k].id = PathToRoot(k)
            /\ dhResult[k].id[1] = dhGlobal[k].id
            /\ dhResult[k].id[Len(dhResult[k].id)] = dhGlobal[1].id
            /\ Len(dhResult[k].id) = Depth(k) + 1
\* a configuration with a scope inside a scope has been resolved
C32_Witness ==
    /\ dhPc = "done"
    /\ \E k \in DOMAIN dhResult :
         /\ Len(dhResult[k].id) = 3
         /\ dhResult[k].id[1] # dhResult[k].id[2]
         /\ dhResult[k].id[2] # dhResult[k].id[3]

\* C33: every Range4 and Range6 parameter parseParameter returns carries two
\* parsed (non-nil) addresses: an operand that is not an IP literal makes it
\* return an error, not a parameter.
C33_RangeCarriesParsedAddresses ==
    (callFn = "parseParameter" /\ callPc = "returned" /\ callResult.status = "ok") =>
        /\ callResult.entry.type \in {"pParameterRange4", "pParameterRange6"}
        /\ callResult.entry.min # NoIP
        /\ callResult.entry.max # NoIP

\* C34: readAppleDhcpdLeaseEntry returns an entry without an error only if
\* ip_address, hw_address and identifier were each set in its block: every
\* entry the Apple reader collected without an error has all three.
C34_AppleEntryHasMandatoryFields ==
    lsFormat = "apple" =>
        \A k \in DOMAIN lsResult :
            /\ lsResult[k].ipAddress # <<>>
            /\ lsResult[k].hwAddress # <<>>
            /\ lsResult[k].id # <<>>

\* one call of toParameter, its goroutine and parseTokenParameter interleaved
ToParameterNext == ToParameterCall \/ ToParameterSend \/ ToParameterClose \/ ToParameterClosed
SpecToParameter == DhcpInit /\ [][ToParameterNext]_vars

\* C35: of a list of tokens, toParameter returns the first as the name and
\* all the others as the operands, a quoted token that holds one of { } ;
\* included, and once nothing can take a step any more the goroutine that
\* feeds the tokens has sent them all and closed its channel.
C35_AllOperandsKeptFeederDone ==
    (callFn = "toParameter" /\ callPc = "returned" /\ callArgs # <<>>) =>
        /\ callResult.name = Head(callArgs)
        /\ callResult.operand = Tail(callArgs)
        /\ ~(ENABLED ToParameterNext) => callResult.closed

\* the config flattenNetworkingConfig builds from a sequence of commands
RECURSIVE ReplayOf(_, _)
ReplayOf(c, cmds) ==
    IF cmds = <<>> THEN c
    ELSE ReplayOf(flattenNetworkingConfig(c, Head(cmds)), Tail(cmds))
\* command i is an answer, command j a later remove_answer of the same key,
\* and no other command is an answer for that network
AnswerThenRemoved(cmds, i, j) ==
    /\ i < j
    /\ cmds[i].type = "answer"
    /\ cmds[j].type = "remove_answer"
    /\ cmds[j].vnet = cmds[i].vnet
    /\ \A k \in DOMAIN cmds \ {i} :
          cmds[k].type = "answer" =>
              networkingVNET_Number(cmds[k].vnet) # networkingVNET_Number(cmds[i].vnet)
\* C36: an answer for a key followed later by remove_answer of the same
\* key, on a network with no other answers, leaves the classification of
\* every network index equal to that of the log without the two commands.
C36_AnswerThenRemoveLeavesClassification ==
    (mapper = "NetworkingConfig" /\ netPc \in {"replay", "done"}) =>
        \A i, j \in DOMAIN netCmds :
            AnswerThenRemoved(netCmds, i, j) =>
                networkingConfigInterfaceTypes(config) =
                    networkingConfigInterfaceTypes(
                        ReplayOf(EmptyNetworkingConfig, WithoutAt(WithoutAt(netCmds, j), i)))

\* Run has reached the wait for the lock files
SsReachedLockWait == \E i \in DOMAIN ssUi : ssUi[i] = "Waiting for clean up..."
\* C37: Run returns ActionHalt exactly when it stored an error in the state
\* bag; the error is that of a failed comm.Start, of the shutdown timer
\* expiring while the machine still runs, or of a failed driver.Stop, each
\* stored before the wait for the lock files; once in that wait Run stores
\* no error, waits no longer than its timer, and returns ActionContinue.
C37_HaltIffErrorStored ==
    /\ ssAction = "ActionHalt" <=> ssError # ErrSsNone
    /\ ssError \in {ErrSsNone, ErrSsStart, ErrSsTimeout, ErrSsStop}
    /\ ssError # ErrSsNone => ssPc = "returned" /\ ~SsReachedLockWait
    /\ ssError = ErrSsStart => ssStep.Command # <<>> /\ ssCalls = <<"comm.Start">> /\ ssWaited = 0
    /\ ssError = ErrSsTimeout =>
         ssStep.Command # <<>> /\ ssCalls = <<"comm.Start">> /\ vmRunning /\ ssWaited >= ssStep.Timeout
    /\ ssError = ErrSsStop => ssStep.Command = <<>> /\ ssCalls = <<"driver.Stop">>
    /\ ssPc \in {"lockWait", "sleep"} => SsReachedLockWait /\ ssAction = "none"
    /\ ssLockWaited <= LockWaitPolls
    /\ ssPc = "returned" =>
         /\ ssAction \in {"ActionHalt", "ActionContinue"}
         /\ ssAction = "ActionContinue" <=> SsReachedLockWait
\* Run has returned ActionContinue after its lock timer expired
C37_Witness ==
    /\ ssPc = "returned"
    /\ ssAction = "ActionContinue"
    /\ ssLockWaited = LockWaitPolls
    /\ ssError = ErrSsNone
\* Run has returned ActionHalt on the expiry of the shutdown timer
C37_WitnessHalt ==
    /\ ssPc = "returned"
    /\ ssAction = "ActionHalt"
    /\ ssError = ErrSsTimeout
    /\ vmRunning

\* one call of StepExport.Run
StepExportNext == CallStepExportRun \/ ReturnStepExportRun
SpecStepExport == DhcpInit /\ [][StepExportNext]_vars

\* p occurs in s
IsSubSeq(p, s) == \E i \in 1..(Len(s) - Len(p) + 1) : SubSeq(s, i, i + Len(p) - 1) = p
\* the bytes a %XX of the model stands for
UnescapeByte(x) ==
    CASE x = <<"%", "4", "0">> -> "@"
      [] x = <<"%", "3", "A">> -> ":"
      [] x = <<"%", "2", "F">> -> "/"
      [] x = <<"%", "3", "C">> -> "<"
      [] x = <<"%", "3", "E">> -> ">"
RECURSIVE Unescape(_)
Unescape(s) ==
    IF s = <<>> THEN <<>>
    ELSE IF Head(s) = "%" THEN <<UnescapeByte(SubSeq(s, 1, 3))>> \o Unescape(SubSeq(s, 4, Len(s)))
    ELSE <<Head(s)>> \o Unescape(Tail(s))
\* the password of a URL vi://user:password@host/name, unescaped
PasswordOf(u) ==
    Unescape(SubSeq(u, FirstIndex(u, ":", Len(tViScheme) + 1) + 1, FirstIndex(u, "@", 1) - 1))
IsViUrl(arg) == Len(arg) > Len(tViScheme) /\ SubSeq(arg, 1, Len(tViScheme)) = tViScheme
\* the lines of the ui that show a command line
ExecutingLines(ui) == {i \in DOMAIN ui : IsSubSeq(tExecuting, ui[i])}
RemoteRunReturned ==
    /\ callFn = "StepExport.Run"
    /\ callPc = "returned"
    /\ callArgs.c.RemoteType = tEsxi
\* C38: in a Run for an esxi build, the command line shown in the ui holds
\* the placeholder <password> (as the URL writes it) and is the same for
\* every RemotePassword of the configuration; the arguments handed to
\* driver.Export hold a vi:// URL whose password is RemotePassword;
\* driver.Export is called at most once, and not at all when SkipExport is
\* set, when the export directory could not be created or when the
\* arguments could not be generated.
C38_PasswordHiddenInUiOnly ==
    RemoteRunReturned =>
        /\ \A i \in ExecutingLines(callResult.ui) :
              IsSubSeq(<<":">> \o EscapeUser(tHiddenPassword) \o <<"@">>, callResult.ui[i])
        /\ \A password \in {<<>>, sePasswordA, sePasswordB} :
              StepExportRun([callArgs EXCEPT !.c.RemotePassword = password]).ui = callResult.ui
        /\ Len(callResult.exports) <= 1
        /\ \A k \in DOMAIN callResult.exports :
              \E j \in DOMAIN callResult.exports[k] :
                  /\ IsViUrl(callResult.exports[k][j])
                  /\ PasswordOf(callResult.exports[k][j]) = callArgs.c.RemotePassword
        /\ (callArgs.s.SkipExport \/ callArgs.mkdirErr \/ ~UrlParseOk(callArgs.c.RemoteHost))
              => callResult.exports = <<>>
        /\ (callResult.action = "ActionHalt" /\ callResult.error # tErrExport)
              => callResult.exports = <<>>
\* a Run for an esxi build has shown its command line and exported with a
\* password that the URL escapes
C38_Witness ==
    /\ RemoteRunReturned
    /\ callArgs.c.RemotePassword = sePasswordB
    /\ ExecutingLines(callResult.ui) # {}
    /\ Len(callResult.exports) = 1
    /\ callResult.action = "ActionContinue"

\* two maps agree at k, and agree everywhere but at k0
SameAt(f, g, k) == (k \in DOMAIN f <=> k \in DOMAIN g) /\ (k \in DOMAIN f => f[k] = g[k])
SameExcept(f, g, k0) == \A k \in ((DOMAIN f) \cup (DOMAIN g)) \ {k0} : SameAt(f, g, k)
\* the table a command names, the network it names in it, and the key
TableOf(e) ==
    CASE e.type \in {"answer", "remove_answer"} -> "answer"
      [] e.type \in {"add_nat_portfwd", "remove_nat_portfwd"} -> "natPortFwd"
      [] e.type \in {"add_dhcp_mac_to_ip", "remove_dhcp_mac_to_ip"} -> "dhcpMacToIp"
      [] e.type \in {"add_bridge_mapping", "remove_bridge_mapping"} -> "bridgeMapping"
      [] e.type \in {"add_nat_prefix", "remove_nat_prefix"} -> "natPrefix"
NetworkOf(e) ==
    CASE TableOf(e) = "answer" -> networkingVNET_Number(e.vnet)
      [] TableOf(e) = "bridgeMapping" -> e.intf
      [] OTHER -> e.vnet
KeyOf(e) ==
    CASE TableOf(e) = "answer" -> networkingVNET_Option(e.vnet)
      [] TableOf(e) = "natPortFwd" -> ProtoPort(e.protocol, e.port)
      [] TableOf(e) = "dhcpMacToIp" -> MACString(e.mac)
TableNames == {"answer", "natPortFwd", "dhcpMacToIp", "bridgeMapping", "natPrefix"}
KeyedTables == {"answer", "natPortFwd", "dhcpMacToIp"}
\* what command e may change from config before to config after
FrameOf(e, before, after) ==
    /\ \A T \in TableNames \ {TableOf(e)} : after[T] = before[T]
    /\ SameExcept(before[TableOf(e)], after[TableOf(e)], NetworkOf(e))
    /\ TableOf(e) \in KeyedTables =>
          SameExcept(MapGet(before[TableOf(e)], NetworkOf(e)),
                     MapGet(after[TableOf(e)], NetworkOf(e)), KeyOf(e))
\* C39: a command that is replayed changes only the entry it names: every
\* other table, every other network's entry in its table and every other
\* key of the entry of its network stay as they were; a bridge-mapping
\* command changes only the entry of its interface.
C39_CommandChangesOnlyItsEntry ==
    [][netCmds' # netCmds => FrameOf(netCmds'[Len(netCmds')], config, config')]_vars
\* an answer table holds two keys after a remove_answer of one of its keys
C39_Witness ==
    /\ Len(netCmds) = 2
    /\ netCmds[1].type = "answer"
    /\ netCmds[2].type = "remove_answer"
    /\ NetworkOf(netCmds[1]) = NetworkOf(netCmds[2])
    /\ KeyOf(netCmds[1]) # KeyOf(netCmds[2])
    /\ KeyOf(netCmds[1]) \in DOMAIN config.answer[NetworkOf(netCmds[1])]

\* the punctuation tokens of the DHCP configuration
Punctuation == {tLBrace, tRBrace, tSemi}
\* C40: in the tree parseDhcpConfig has built, no parameter and no scope has
\* a punctuation token as its name: a ";" with no tokens before it adds no
\* parameter, and a "{" with no tokens before it creates no scope named by
\* a punctuation token.
C40_NamesAreInputTokens ==
    (plReader = "ReadDhcpConfiguration" /\ plPc \in {"parse", "returned"}) =>
        \A n \in DOMAIN plMain.tree :
            /\ plMain.tree[n].id.name \notin Punctuation
            /\ \A k \in DOMAIN plMain.tree[n].params :
                  plMain.tree[n].params[k].name \notin Punctuation

====
